---- MODULE Spec2Model ----
(***************************************************************************)
(* A model of the OAuth2/OIDC flow engine:                                 *)
(*   - InMemoryCache (src/core/cache/memory_cache.py) and the PKCE store   *)
(*     built on it (src/core/auth/pkce_store.py);                          *)
(*   - OIDCTokenValidator (src/core/auth/oidc_token_validator.py);         *)
(*   - the Azure callback (src/fastapi/routers/auth/azure.py).             *)
(* Each subsystem has its own specification over the shared variables.     *)
(***************************************************************************)
EXTENDS Integers, Sequences, FiniteSets, TLC

VARIABLES
    store,        \* InMemoryCache._store: dict key -> (value, expires_at)
    now,          \* the wall clock read by time.time()
    ticks,        \* how many times the clock has advanced (bounds the run)
    last,         \* the latest completed cache call and what it returned
    live,         \* per key, the latest set not yet overwritten, popped, deleted or cleared
    pc,           \* per thread, the position inside a locked cache call
    store_lock,   \* InMemoryCache._store_lock: the thread holding it, or NoThread
    frame,        \* per thread, the locals of the call in progress
    gen,          \* per key, how many set calls have written it and the latest expiry
    got,          \* per key, how many pops returned a value since the latest set
    jwks_cache,       \* OIDCTokenValidator._jwks_cache
    jwks_fetched_at,  \* OIDCTokenValidator._jwks_fetched_at
    provider,         \* the keyset the provider publishes at jwks_uri and how the GET ends
    vlast,            \* the latest completed validator call and how it ended
    sessions,         \* the sessions create_session_and_log has created
    validated,        \* the ID tokens on which validate_token has succeeded
    clast,            \* the latest completed client call: what it sent and returned
    tasks,            \* per task, its position in _get_jwks and the locals it holds
    provider_registry,  \* factory._provider_registry: dict name -> provider class
    instances,          \* the provider objects constructed so far, by reference
    reg_history,        \* the register_provider calls made so far, in order
    rlast,              \* the latest completed factory call and how it ended
    cls,                \* InMemoryCache's class attributes and the object they point to
    ctor,               \* per thread, its position inside InMemoryCache() and what it holds
    state_map,          \* generic._state_map: dict state -> {provider, mode}
    db,                 \* the user_sessions table: the UserSession rows, by id
    slast               \* the latest completed SessionService call and what it returned

storeVars == <<store, now, ticks, last, live>>
popVars == <<pc, store_lock, frame, gen, got>>
jwksVars == <<jwks_cache, jwks_fetched_at, provider, vlast>>
cacheOnly == <<store, last, live>>
cbVars == <<sessions, validated>>
clientVars == <<clast>>
taskVars == <<tasks>>
regVars == <<provider_registry, instances, reg_history, rlast>>
singVars == <<cls, ctor>>
webVars == <<state_map, db, slast>>
vars == <<store, now, ticks, last, live, pc, store_lock, frame, gen, got,
          jwks_cache, jwks_fetched_at, provider, vlast, sessions, validated,
          clast, tasks, provider_registry, instances, reg_history, rlast,
          cls, ctor,
         state_map, db, slast>>

----------------------------------------------------------------------------
(* Bounds and program constants *)

MaxTicks == 3
NumThreads == 2
MaxGen == 1
MaxSessions == 2

PKCE_TTL_SECONDS == 600
PKCE_PREFIX == "pkce:"

None == "None"
States == {"s1", "s2"}
Values == {"v1", "v2"}
PkceKey(state) == PKCE_PREFIX \o state
Keys == {PkceKey(s) : s \in States}
TTLs == {1, PKCE_TTL_SECONDS}

\* The clock advances by a second, or to just before a PKCE TTL runs out.
StoreSteps == {1, PKCE_TTL_SECONDS - 1}
\* time.time() read again inside one call: the same instant or a second later.
Reread(t) == IF ticks + (t - now) < MaxTicks THEN {t, t + 1} ELSE {t}
Elapsed(t) == t - now

----------------------------------------------------------------------------
(* InMemoryCache: the dict and the bodies of its methods *)

ExpiredWithin(entry, t) == t + 1 >= entry[2]

\* _cleanup_expired: current_time >= expires_at
Expired(entry, t) == t >= entry[2]

UnexpiredInclusive(entry, t) == t <= entry[2]

\* get / pop: time.time() < expires_at
Unexpired(entry, t) == t < entry[2]

RemoveAll(s, key) == << >>

Remove(s, key) == [k \in DOMAIN s \ {key} |-> s[k]]

PutIfAbsent(s, key, entry) ==
    IF key \in DOMAIN s THEN s ELSE [k \in DOMAIN s \cup {key} |-> IF k = key THEN entry ELSE s[k]]

\* self._store[key] = (value, expires_at)
Put(s, key, entry) == [k \in DOMAIN s \cup {key} |-> IF k = key THEN entry ELSE s[k]]

CleanupNothing(s, t) == s

\* _cleanup_expired: every entry with current_time >= expires_at is deleted
CleanupExpired(s, t) == [k \in {x \in DOMAIN s : ~Expired(s[x], t)} |-> s[k]]

\* set: sweep at t1, then expires_at = time.time() + ttl_seconds read at t2.
SetRun(s, key, value, ttl, t1, t2) == Put(CleanupExpired(s, t1), key, <<value, t2 + ttl>>)

\* get: sweep at t1; a present key is compared with time.time() read at t2.
GetRun(s, key, t1, t2) ==
    LET c == CleanupExpired(s, t1) IN
    IF key \in DOMAIN c
    THEN IF Unexpired(c[key], t2)
         THEN [store |-> c, ret |-> c[key][1], t |-> t2]
         ELSE [store |-> Remove(c, key), ret |-> None, t |-> t2]
    ELSE [store |-> c, ret |-> None, t |-> t1]

PopEntryKeep(s, key) == s

\* self._store.pop(key): the dict without the key.
PopEntry(s, key) == Remove(s, key)

PopRunUnchecked(s, key, t1, t2) ==
    LET c == CleanupExpired(s, t1) IN
    IF key \in DOMAIN c
    THEN [store |-> PopEntry(c, key), ret |-> c[key][1], t |-> t2]
    ELSE [store |-> c, ret |-> None, t |-> t1]

\* pop: sweep at t1; a present key is removed, then compared with the clock at t2.
PopRun(s, key, t1, t2) ==
    LET c == CleanupExpired(s, t1) IN
    IF key \in DOMAIN c
    THEN [store |-> PopEntry(c, key),
          ret |-> IF Unexpired(c[key], t2) THEN c[key][1] ELSE None,
          t |-> t2]
    ELSE [store |-> c, ret |-> None, t |-> t1]

DeleteRunKeep(s, key) == [store |-> s, ret |-> key \in DOMAIN s]

\* delete: no sweep, no clock.
DeleteRun(s, key) ==
    IF key \in DOMAIN s
    THEN [store |-> Remove(s, key), ret |-> TRUE]
    ELSE [store |-> s, ret |-> FALSE]

----------------------------------------------------------------------------
(* OIDCTokenValidator: the JWKS cache *)

cache_ttl == 3600

Kids == {"kidA", "kidB"}
Jwk(kid, n) == [kid |-> kid, n |-> n]
\* The keysets a provider publishes: none, one key, two keys, and kidA rotated
\* to new key material.
KeySets == {{}, {Jwk("kidA", "n1")}, {Jwk("kidA", "n1"), Jwk("kidB", "n1")},
            {Jwk("kidA", "n2")}}
FetchEnds == {"ok", "RequestError", "HTTPStatusError"}
ProviderStates == [keys : KeySets, status : FetchEnds]

\* self._jwks_cache is None, or the dict {"keys": [...]} of the last fetch.
NoJwks == [some |-> FALSE, keys |-> {}]
Jwks(keys) == [some |-> TRUE, keys |-> keys]
NoKey == Jwk("", "")

NoErr == [type |-> "", msg |-> ""]
JWTError(msg) == [type |-> "JWTError", msg |-> msg]
HTTPStatusError == [type |-> "HTTPStatusError", msg |-> ""]
FetchFailed == JWTError("Failed to fetch JWKS")
KeyNotFound == JWTError("Public key with kid not found.")

\* The clock advances by a second, or to just before the JWKS TTL runs out.
JwksSteps == {1, cache_ttl - 1}

\* _fetch_jwks: GET jwks_uri; raise_for_status raises httpx.HTTPStatusError,
\* which the except clause for httpx.RequestError does not catch.
FetchJwks(p) ==
    CASE p.status = "ok" -> [ret |-> Jwks(p.keys), err |-> NoErr]
      [] p.status = "RequestError" -> [ret |-> NoJwks, err |-> FetchFailed]
      [] OTHER -> [ret |-> NoJwks, err |-> HTTPStatusError]

CacheUsableForever(force_refresh, cache, fetched_at, t) == ~force_refresh /\ cache.some

\* not force_refresh and self._jwks_cache and (now - self._jwks_fetched_at) < self.cache_ttl
CacheUsable(force_refresh, cache, fetched_at, t) ==
    ~force_refresh /\ cache.some /\ (t - fetched_at) < cache_ttl

GetJwksRunClearing(v, force_refresh, t, p) ==
    IF CacheUsable(force_refresh, v.cache, v.fetched_at, t)
    THEN [cache |-> v.cache, fetched_at |-> v.fetched_at, ret |-> v.cache,
          err |-> NoErr, fetches |-> 0]
    ELSE LET f == FetchJwks(p) IN
         [cache |-> f.ret, fetched_at |-> t, ret |-> f.ret, err |-> f.err, fetches |-> 1]

\* _get_jwks(force_refresh) called at clock t with the validator state v.
\* the larger of two clock readings
Later(t1, t2) == IF t1 < t2 THEN t2 ELSE t1

GetJwksRunMonotone(v, force_refresh, t, p) ==
    IF CacheUsable(force_refresh, v.cache, v.fetched_at, t)
    THEN [cache |-> v.cache, fetched_at |-> v.fetched_at, ret |-> v.cache,
          err |-> NoErr, fetches |-> 0]
    ELSE LET f == FetchJwks(p) IN
         IF f.err = NoErr
         THEN [cache |-> f.ret, fetched_at |-> Later(v.fetched_at, t), ret |-> f.ret,
               err |-> NoErr, fetches |-> 1]
         ELSE [cache |-> v.cache, fetched_at |-> v.fetched_at, ret |-> NoJwks,
               err |-> f.err, fetches |-> 1]

GetJwksRun(v, force_refresh, t, p) ==
    IF CacheUsable(force_refresh, v.cache, v.fetched_at, t)
    THEN [cache |-> v.cache, fetched_at |-> v.fetched_at, ret |-> v.cache,
          err |-> NoErr, fetches |-> 0]
    ELSE LET f == FetchJwks(p) IN
         IF f.err = NoErr
         THEN [cache |-> f.ret, fetched_at |-> t, ret |-> f.ret, err |-> NoErr, fetches |-> 1]
         ELSE [cache |-> v.cache, fetched_at |-> v.fetched_at, ret |-> NoJwks,
               err |-> f.err, fetches |-> 1]

\* next((k for k in jwks.get("keys", []) if k.get("kid") == kid), None)
FindKey(jwks, kid) ==
    IF \E k \in jwks.keys : k.kid = kid
    THEN CHOOSE k \in jwks.keys : k.kid = kid
    ELSE NoKey

NoForceOnMiss == FALSE

\* _get_key: self._get_jwks(force_refresh=True)
ForceOnMiss == TRUE

\* _get_key(kid): the first _get_jwks reads the clock at t1, the retry at t2.
GetKeyRun(v, kid, t1, t2, p) ==
    LET r1 == GetJwksRun(v, FALSE, t1, p) IN
    IF r1.err # NoErr
    THEN [cache |-> r1.cache, fetched_at |-> r1.fetched_at, ret |-> NoKey, err |-> r1.err,
          fetches |-> r1.fetches, forced |-> 0]
    ELSE IF FindKey(r1.ret, kid) # NoKey
    THEN [cache |-> r1.cache, fetched_at |-> r1.fetched_at, ret |-> FindKey(r1.ret, kid),
          err |-> NoErr, fetches |-> r1.fetches, forced |-> 0]
    ELSE LET r2 == GetJwksRun(r1, ForceOnMiss, t2, p)
             n == r1.fetches + r2.fetches
             forced == IF ForceOnMiss THEN 1 ELSE 0 IN
         IF r2.err # NoErr
         THEN [cache |-> r2.cache, fetched_at |-> r2.fetched_at, ret |-> NoKey,
               err |-> r2.err, fetches |-> n, forced |-> forced]
         ELSE IF FindKey(r2.ret, kid) # NoKey
         THEN [cache |-> r2.cache, fetched_at |-> r2.fetched_at,
               ret |-> FindKey(r2.ret, kid), err |-> NoErr, fetches |-> n, forced |-> forced]
         ELSE [cache |-> r2.cache, fetched_at |-> r2.fetched_at, ret |-> NoKey,
               err |-> KeyNotFound, fetches |-> n, forced |-> forced]

----------------------------------------------------------------------------
(* OIDCTokenValidator.validate_token *)

Issuer == "https://issuer"
Audience == "client-id"
\* the payload is a dict: a claim a token does not carry is not in its domain
Payload(aud, iss, exp) == aud @@ iss @@ exp
Carried(name, value) == name :> value
Absent == <<>>
GoodPayload(t) ==
    Payload(Carried("aud", Audience), Carried("iss", Issuer), Carried("exp", t + 1))
\* the good payload and the payloads that differ from it in one claim
Payloads(t) ==
    {GoodPayload(t)}
    \cup {Payload(a, Carried("iss", Issuer), Carried("exp", t + 1)) :
            a \in {Carried("aud", "other"), Absent}}
    \cup {Payload(Carried("aud", Audience), i, Carried("exp", t + 1)) :
            i \in {Carried("iss", "other"), Absent}}
    \cup {Payload(Carried("aud", Audience), Carried("iss", Issuer), e) :
            e \in {Carried("exp", t), Carried("exp", t - 1), Absent}}
\* a token is signed with the private half of key material n1, or forged
GoodHeader == [kid |-> "kidA", alg |-> "RS256", sig |-> "n1"]
Headers ==
    {GoodHeader,
     [GoodHeader EXCEPT !.kid = None],
     [GoodHeader EXCEPT !.kid = "kidB"],
     [GoodHeader EXCEPT !.alg = "HS256"],
     [GoodHeader EXCEPT !.sig = "forged"]}
Tokens(t) ==
    {[kid |-> h.kid, alg |-> h.alg, sig |-> h.sig, claims |-> c] :
        h \in Headers, c \in Payloads(t)}
NoToken == [kid |-> None, alg |-> "", sig |-> "", claims |-> <<>>]
Has(claims, name) == name \in DOMAIN claims

Wrapped(e) == JWTError("Token validation failed: " \o e.msg)

\* jwt.decode(token, key, algorithms=["RS256"], audience=..., issuer=...) of
\* python-jose with its default options at clock t: the algorithm and the
\* signature, then exp, aud and iss. No claim is required: exp and aud are
\* checked only when the token carries them, and exp fails when exp < now.
JoseDecode(token, key, t) ==
    CASE token.alg # "RS256" -> JWTError("The specified alg value is not allowed")
      [] token.sig # key.n -> JWTError("Signature verification failed.")
      [] Has(token.claims, "exp") /\ token.claims["exp"] < t -> JWTError("Signature has expired.")
      [] Has(token.claims, "aud") /\ token.claims["aud"] # Audience -> JWTError("Invalid audience")
      [] ~Has(token.claims, "iss") -> JWTError("Invalid issuer")
      [] token.claims["iss"] # Issuer -> JWTError("Invalid issuer")
      [] OTHER -> NoErr

\* validate_token looking the key up before it tests the kid
ValidateRunKeyFirst(v, token, t1, t2, t3, p) ==
    LET k == GetKeyRun(v, token.kid, t1, t2, p) IN
    [cache |-> k.cache, fetched_at |-> k.fetched_at, ret |-> <<>>, ok |-> FALSE,
     err |-> Wrapped(JWTError("Missing 'kid' in token header.")),
     fetches |-> k.fetches, forced |-> k.forced, key |-> NoKey]

\* validate_token(token): the header's kid, _get_key, jwt.decode at clock t3;
\* a JWTError is raised again as JWTError("Token validation failed: ...").
ValidateRun(v, token, t1, t2, t3, p) ==
    IF token.kid = None
    THEN [cache |-> v.cache, fetched_at |-> v.fetched_at, ret |-> <<>>, ok |-> FALSE,
          err |-> Wrapped(JWTError("Missing 'kid' in token header.")),
          fetches |-> 0, forced |-> 0, key |-> NoKey]
    ELSE LET k == GetKeyRun(v, token.kid, t1, t2, p) IN
         IF k.err # NoErr
         THEN [cache |-> k.cache, fetched_at |-> k.fetched_at, ret |-> <<>>, ok |-> FALSE,
               err |-> IF k.err.type = "JWTError" THEN Wrapped(k.err) ELSE k.err,
               fetches |-> k.fetches, forced |-> k.forced, key |-> NoKey]
         ELSE LET d == JoseDecode(token, k.ret, t3) IN
              IF d # NoErr
              THEN [cache |-> k.cache, fetched_at |-> k.fetched_at, ret |-> <<>>,
                    ok |-> FALSE, err |-> Wrapped(d),
                    fetches |-> k.fetches, forced |-> k.forced, key |-> k.ret]
              ELSE [cache |-> k.cache, fetched_at |-> k.fetched_at, ret |-> token.claims,
                    ok |-> TRUE, err |-> NoErr,
                    fetches |-> k.fetches, forced |-> k.forced, key |-> k.ret]

NoVCall == [op |-> "none", force |-> FALSE, kid |-> "", t |-> 0,
            pre |-> [cache |-> NoJwks, fetched_at |-> 0],
            env |-> [keys |-> {}, status |-> "ok"], token |-> NoToken,
            key |-> NoKey, ok |-> FALSE, ret |-> <<>>, err |-> NoErr,
            fetches |-> 0, forced |-> 0, earlier |-> FALSE]

----------------------------------------------------------------------------
(* GenericOIDCClient: the login URL and the code-for-token exchange *)

client_id == "client-id"
client_secret == "client-secret"
redirect_uri == "https://app/callback"
scope == "openid profile email"
authorization_endpoint == "https://provider/authorize"
token_endpoint == "https://provider/token"

\* secrets.token_hex(nbytes): two hex digits for each of nbytes random bytes
HexDigits == <<"0", "1", "2", "3", "4", "5", "6", "7", "8", "9",
               "a", "b", "c", "d", "e", "f">>
HexByte(b) == HexDigits[(b \div 16) + 1] \o HexDigits[(b % 16) + 1]
RECURSIVE HexOf(_)
HexOf(bytes) == IF bytes = <<>> THEN "" ELSE HexByte(Head(bytes)) \o HexOf(Tail(bytes))
\* the random bytes drawn, as one sample
RandomBytes(nbytes) == {[i \in 1..nbytes |-> (i * 37) % 256]}
token_hex(nbytes) == {HexOf(bytes) : bytes \in RandomBytes(nbytes)}
StateBytes == 16

\* hashlib.sha256 and the unpadded urlsafe base64 of its digest, as one-way tags
Sha256(s) == "sha256(" \o s \o ")"
Base64UrlNoPad(digest) == "b64url(" \o digest \o ")"

PlainChallenge(code_verifier) == code_verifier

\* code_challenge = base64url(sha256(code_verifier)) without padding
CodeChallenge(code_verifier) == Base64UrlNoPad(Sha256(code_verifier))

\* base64.urlsafe_b64encode: three bytes become four characters of the
\* URL-safe alphabet, a last group of one or two bytes is padded with "="
Base64UrlAlphabet ==
    <<"A", "B", "C", "D", "E", "F", "G", "H", "I", "J", "K", "L", "M",
      "N", "O", "P", "Q", "R", "S", "T", "U", "V", "W", "X", "Y", "Z",
      "a", "b", "c", "d", "e", "f", "g", "h", "i", "j", "k", "l", "m",
      "n", "o", "p", "q", "r", "s", "t", "u", "v", "w", "x", "y", "z",
      "0", "1", "2", "3", "4", "5", "6", "7", "8", "9", "-", "_">>
Sextet(n) == Base64UrlAlphabet[n + 1]
RECURSIVE UrlsafeB64Encode(_)
UrlsafeB64Encode(bytes) ==
    CASE Len(bytes) = 0 -> <<>>
      [] Len(bytes) = 1 ->
            <<Sextet(bytes[1] \div 4), Sextet((bytes[1] % 4) * 16), "=", "=">>
      [] Len(bytes) = 2 ->
            <<Sextet(bytes[1] \div 4),
              Sextet((bytes[1] % 4) * 16 + bytes[2] \div 16),
              Sextet((bytes[2] % 16) * 4), "=">>
      [] OTHER ->
            <<Sextet(bytes[1] \div 4),
              Sextet((bytes[1] % 4) * 16 + bytes[2] \div 16),
              Sextet((bytes[2] % 16) * 4 + bytes[3] \div 64),
              Sextet(bytes[3] % 64)>>
            \o UrlsafeB64Encode(SubSeq(bytes, 4, Len(bytes)))
\* .rstrip("=")
RECURSIVE RStrip(_, _)
RStrip(chars, c) ==
    IF chars # <<>> /\ chars[Len(chars)] = c
    THEN RStrip(SubSeq(chars, 1, Len(chars) - 1), c)
    ELSE chars
RECURSIVE Decode(_)
Decode(chars) == IF chars = <<>> THEN "" ELSE Head(chars) \o Decode(Tail(chars))
\* what secrets.token_bytes may return for a verifier: two samples
UrlsafeBytes(nbytes) == {[i \in 1..nbytes |-> (i * m) % 256] : m \in {37, 101}}
\* secrets.token_urlsafe(nbytes)
token_urlsafe(nbytes) ==
    {Decode(RStrip(UrlsafeB64Encode(bytes), "=")) : bytes \in UrlsafeBytes(nbytes)}
VerifierBytes == 64

\* a pair made from too few random bytes
GenerateShortPair == {<<v, CodeChallenge(v)>> : v \in token_urlsafe(StateBytes)}

\* generate_pkce_pair(): the verifier is random, the challenge is derived from it
generate_pkce_pair == {<<v, CodeChallenge(v)>> : v \in token_urlsafe(VerifierBytes)}
\* the verifiers it can return
Verifiers == {pair[1] : pair \in generate_pkce_pair}

\* A dict in insertion order: a sequence of <<name, value>> with distinct names.
DictKeys(d) == {d[i][1] : i \in DOMAIN d}
DictGet(d, name) ==
    IF name \in DictKeys(d)
    THEN d[CHOOSE i \in DOMAIN d : d[i][1] = name][2]
    ELSE None
DictSet(d, name, value) ==
    IF name \in DictKeys(d)
    THEN [i \in DOMAIN d |-> IF d[i][1] = name THEN <<name, value>> ELSE d[i]]
    ELSE Append(d, <<name, value>>)
RECURSIVE DictUpdate(_, _)
DictUpdate(d, other) ==
    IF other = <<>> THEN d
    ELSE DictUpdate(DictSet(d, Head(other)[1], Head(other)[2]), Tail(other))

\* a str argument that is neither None nor empty
Given(s) == s # None /\ s # ""

\* f"{endpoint}?{urlencode(params)}": the endpoint and the query pairs in order
Url(endpoint, params) == [endpoint |-> endpoint, query |-> params]
NoUrl == Url("", <<>>)

\* build_login_redirect_url: params, then prompt, then extra_params
LoginParams(state, prompt, extra_params) ==
    LET base == << <<"client_id", client_id>>, <<"response_type", "code">>,
                   <<"redirect_uri", redirect_uri>>, <<"response_mode", "query">>,
                   <<"scope", scope>>, <<"state", state>> >>
        prompted == IF Given(prompt) THEN DictSet(base, "prompt", prompt) ELSE base IN
    IF extra_params # <<>> THEN DictUpdate(prompted, extra_params) ELSE prompted

BuildLoginRunUnstored(use_pkce, state_arg, prompt, extra_params, fresh_state, pair, s, t1, t2) ==
    LET state == IF Given(state_arg) THEN state_arg ELSE fresh_state
        params == LoginParams(state, prompt, extra_params) IN
    [url |-> Url(authorization_endpoint,
                 IF use_pkce
                 THEN DictSet(DictSet(params, "code_challenge", pair[2]),
                              "code_challenge_method", "S256")
                 ELSE params),
     state |-> state, store |-> s, t |-> t1]

BuildLoginRunExtrasLast(use_pkce, state_arg, prompt, extra_params, fresh_state, pair, s, t1, t2) ==
    LET state == IF Given(state_arg) THEN state_arg ELSE fresh_state
        params == LoginParams(state, prompt, <<>>) IN
    IF use_pkce
    THEN [url |-> Url(authorization_endpoint,
                      DictUpdate(DictSet(DictSet(params, "code_challenge", pair[2]),
                                         "code_challenge_method", "S256"),
                                 extra_params)),
          state |-> state,
          store |-> SetRun(s, PkceKey(state), pair[1], PKCE_TTL_SECONDS, t1, t2),
          t |-> t2]
    ELSE [url |-> Url(authorization_endpoint, DictUpdate(params, extra_params)),
          state |-> state, store |-> s, t |-> t1]

\* build_login_redirect_url(state, prompt, extra_params) on a client with
\* use_pkce, the store s, token_hex drawing fresh_state and generate_pkce_pair
\* drawing pair; the store's set sweeps at t1 and writes at t2.
BuildLoginRun(use_pkce, state_arg, prompt, extra_params, fresh_state, pair, s, t1, t2) ==
    LET state == IF Given(state_arg) THEN state_arg ELSE fresh_state
        params == LoginParams(state, prompt, extra_params) IN
    IF use_pkce
    THEN [url |-> Url(authorization_endpoint,
                      DictSet(DictSet(params, "code_challenge", pair[2]),
                              "code_challenge_method", "S256")),
          state |-> state,
          store |-> SetRun(s, PkceKey(state), pair[1], PKCE_TTL_SECONDS, t1, t2),
          t |-> t2]
    ELSE [url |-> Url(authorization_endpoint, params), state |-> state, store |-> s,
          t |-> t1]

\* exchange_code_for_token: the form fields before the verifier is added
ExchangeData(code) ==
    << <<"grant_type", "authorization_code">>, <<"code", code>>,
       <<"client_id", client_id>>, <<"client_secret", client_secret>>,
       <<"redirect_uri", redirect_uri>>, <<"scope", scope>> >>

WithVerifierAlways(data, code_verifier) == DictSet(data, "code_verifier", code_verifier)

\* if code_verifier: data["code_verifier"] = code_verifier
WithVerifier(data, code_verifier) ==
    IF Given(code_verifier) THEN DictSet(data, "code_verifier", code_verifier) ELSE data

\* what the token endpoint answers: a token bundle under 200, an error body
\* under 200 or 400; status 0 stands for no response (httpx.RequestError)
Bundle == << <<"access_token", "at">>, <<"id_token", "idt">> >>
ErrorBody == << <<"error", "invalid_grant">>, <<"error_description", "bad code">> >>
NoResponse == [status |-> 0, body |-> <<>>]
TokenEndpointAnswers ==
    {[status |-> 200, body |-> Bundle], [status |-> 200, body |-> ErrorBody],
     [status |-> 400, body |-> ErrorBody], NoResponse}
\* httpx Response.is_success
IsSuccess(status) == 200 <= status /\ status <= 299
RequestError == [type |-> "RequestError", msg |-> ""]

\* response.raise_for_status(); return response.json()
ReturnBody(answer) == answer.body

ExchangeRunPeek(use_pkce, code, state, answer, s, t1, t2) ==
    LET p == IF use_pkce /\ Given(state)
             THEN GetRun(s, PkceKey(state), t1, t2)
             ELSE [store |-> s, ret |-> None, t |-> t1] IN
    [store |-> p.store, t |-> p.t,
     data |-> WithVerifier(ExchangeData(code), p.ret),
     ret |-> IF IsSuccess(answer.status) THEN ReturnBody(answer) ELSE <<>>,
     err |-> CASE answer = NoResponse -> RequestError
               [] ~IsSuccess(answer.status) -> HTTPStatusError
               [] OTHER -> NoErr]

\* exchange_code_for_token(code, state) on a client with use_pkce; the store's
\* pop sweeps at t1 and compares at t2; the POST is answered by answer.
ExchangeRun(use_pkce, code, state, answer, s, t1, t2) ==
    LET p == IF use_pkce /\ Given(state)
             THEN PopRun(s, PkceKey(state), t1, t2)
             ELSE [store |-> s, ret |-> None, t |-> t1] IN
    [store |-> p.store, t |-> p.t,
     data |-> WithVerifier(ExchangeData(code), p.ret),
     ret |-> IF IsSuccess(answer.status) THEN ReturnBody(answer) ELSE <<>>,
     err |-> CASE answer = NoResponse -> RequestError
               [] ~IsSuccess(answer.status) -> HTTPStatusError
               [] OTHER -> NoErr]

NoClientCall == [op |-> "none", use_pkce |-> FALSE, arg |-> None, extra_params |-> <<>>,
                 state |-> None, url |-> NoUrl, data |-> <<>>, entry |-> <<>>,
                 answer |-> NoResponse, ret |-> <<>>, err |-> NoErr, t |-> 0,
                 changed |-> FALSE, class |-> "", endpoint |-> None,
                 owner |-> "", from |-> "", status |-> 0, issued |-> FALSE,
                 accepted |-> {}, replay |-> FALSE]

----------------------------------------------------------------------------
(* The provider factory: register_provider and get_auth_provider *)

\* A str argument is the sequence of its characters, so that lower() is
\* computed letter by letter; the registry's keys are the joined strings.
UpperLetters == <<"A", "B", "C", "D", "E", "F", "G", "H", "I", "J", "K", "L", "M",
                  "N", "O", "P", "Q", "R", "S", "T", "U", "V", "W", "X", "Y", "Z">>
LowerLetters == <<"a", "b", "c", "d", "e", "f", "g", "h", "i", "j", "k", "l", "m",
                  "n", "o", "p", "q", "r", "s", "t", "u", "v", "w", "x", "y", "z">>
LowerChar(c) ==
    IF \E i \in DOMAIN UpperLetters : UpperLetters[i] = c
    THEN LowerLetters[CHOOSE i \in DOMAIN UpperLetters : UpperLetters[i] = c]
    ELSE c
RECURSIVE Str(_)
Str(chars) == IF chars = <<>> THEN "" ELSE Head(chars) \o Str(Tail(chars))
\* name.lower()
lower(chars) == Str([i \in DOMAIN chars |-> LowerChar(chars[i])])

\* provider: str | None
NoName == [some |-> FALSE, chars |-> <<>>]
Name(chars) == [some |-> TRUE, chars |-> chars]
\* `if provider:` is false for None and for the empty string
Truthy(arg) == arg.some /\ arg.chars # <<>>

\* settings.auth_provider: Field(default=AuthProvider.GITHUB), its .value
auth_provider == "github"

\* the provider classes; the OIDC ones build an OIDCTokenValidator in __init__
ProviderClasses == {"GitHubAuthService", "AzureAuthService"}
HasValidator(class) == class = "AzureAuthService"

\* _provider_registry[name.lower()] = provider_class, with setdefault instead
RegisterRunKeepFirst(reg, chars, provider_class) ==
    IF lower(chars) \in DictKeys(reg) THEN reg ELSE DictSet(reg, lower(chars), provider_class)

\* register_provider(name, provider_class)
RegisterRun(reg, chars, provider_class) == DictSet(reg, lower(chars), provider_class)

\* ProviderNotSupportedError(provider, supported_providers=None):
\* supported = supported_providers or ["github", "azure", "google"]
DefaultSupported == <<"github", "azure", "google">>
NoList == <<>>
ProviderNotSupportedError(name, supported_providers) ==
    [type |-> "ProviderNotSupportedError", provider |-> name,
     supported_providers |-> IF supported_providers # <<>> THEN supported_providers
                             ELSE DefaultSupported]
NoFactoryErr == [type |-> "", provider |-> "", supported_providers |-> <<>>]

\* provider_class(): a new object with its own attributes
NewProvider(class) == [class |-> class, jwks_cache |-> NoJwks, jwks_fetched_at |-> 0]
NoRef == 0
\* a factory that hands out the object it made before for the class, if any
ConstructShared(heap, class) ==
    IF \E i \in DOMAIN heap : heap[i].class = class
    THEN [heap |-> heap, ref |-> CHOOSE i \in DOMAIN heap : heap[i].class = class]
    ELSE [heap |-> Append(heap, NewProvider(class)), ref |-> Len(heap) + 1]
\* _provider_registry[provider_name](): the class is called, Python allocates
Construct(heap, class) ==
    [heap |-> Append(heap, NewProvider(class)), ref |-> Len(heap) + 1]

\* the name get_auth_provider looks up: provider.lower() if provider else
\* settings.auth_provider.value
ProviderNameDefaultFirst(provider_arg) == auth_provider
ProviderName(provider_arg) ==
    IF Truthy(provider_arg) THEN lower(provider_arg.chars) ELSE auth_provider

\* get_auth_provider(provider)
GetAuthProviderRun(reg, heap, provider_arg) ==
    LET provider_name == ProviderName(provider_arg) IN
    IF provider_name \notin DictKeys(reg)
    THEN [heap |-> heap, ref |-> NoRef, name |-> provider_name,
          err |-> ProviderNotSupportedError(provider_name, NoList)]
    ELSE LET c == Construct(heap, DictGet(reg, provider_name)) IN
         [heap |-> c.heap, ref |-> c.ref, name |-> provider_name, err |-> NoFactoryErr]

NoFactoryCall == [op |-> "none", arg |-> NoName, class |-> "", name |-> "",
                  pre |-> <<>>, ref |-> NoRef, err |-> NoFactoryErr]

----------------------------------------------------------------------------
(* InMemoryCache.__new__: the singleton *)

\* an object super().__new__(cls) has allocated: which attributes it has so
\* far, and the keys set in its _store
NewCache == [has_store |-> FALSE, has_store_lock |-> FALSE, entries |-> {}]
\* the class attributes: _instance, _lock (its holder), and the objects
\* allocated so far; inits counts the executions of `_store = {}` and written
\* is the set of keys that set calls have stored
NoClass == [instance |-> 0, lock |-> 0, objs |-> <<>>, inits |-> 0, written |-> {}]
\* a thread outside InMemoryCache(), holding no reference
NoCtor == [pc |-> "idle", ref |-> 0, err |-> ""]

----------------------------------------------------------------------------
(* User info, token refresh and the password grant *)

user_info_endpoint == "https://provider/userinfo"
\* user_info_endpoint: str | None = None
UserInfoEndpoints == {None, "", user_info_endpoint}
ValueError(msg) == [type |-> "ValueError", msg |-> msg]
NotImplementedError(msg) == [type |-> "NotImplementedError", msg |-> msg]
UserBody == << <<"sub", "user-1">>, <<"email", "u@example.com">> >>
UserInfoAnswers ==
    {[status |-> 200, body |-> UserBody], [status |-> 401, body |-> ErrorBody], NoResponse}

\* how a request that was sent ends: the body, or the error raised
Answered(answer) ==
    [ret |-> IF IsSuccess(answer.status) THEN ReturnBody(answer) ELSE <<>>,
     err |-> CASE answer = NoResponse -> RequestError
               [] ~IsSuccess(answer.status) -> HTTPStatusError
               [] OTHER -> NoErr]
\* a call that ends before any request is made
NotSent(err) == [url |-> NoUrl, data |-> <<>>, ret |-> <<>>, err |-> err]
Sent(url, data, answer) ==
    [url |-> url, data |-> data, ret |-> Answered(answer).ret, err |-> Answered(answer).err]

\* get_user_info with the GET made whatever the endpoint is
GetUserInfoRunUnchecked(endpoint, access_token, answer) ==
    Sent(Url(endpoint, <<>>), << <<"Authorization", "Bearer " \o access_token>> >>, answer)

\* GenericOIDCClient.get_user_info(access_token)
GetUserInfoRun(endpoint, access_token, answer) ==
    IF ~Given(endpoint)
    THEN NotSent(ValueError("User info endpoint not configured"))
    ELSE Sent(Url(endpoint, <<>>), << <<"Authorization", "Bearer " \o access_token>> >>,
              answer)

\* GenericOIDCClient.refresh_token(refresh_token)
ClientRefreshRun(refresh_token, answer) ==
    Sent(Url(token_endpoint, <<>>),
         << <<"grant_type", "refresh_token">>, <<"refresh_token", refresh_token>>,
            <<"client_id", client_id>>, <<"client_secret", client_secret>> >>,
         answer)

\* the services that define refresh_token themselves (it calls the client's);
\* the others inherit BaseAuthProvider.refresh_token
OverridesRefresh(class) == class = "AzureAuthService"
provider_name(class) == IF class = "GitHubAuthService" THEN "github" ELSE "azure"

\* service.refresh_token(refresh_token)
RefreshTokenRun(class, refresh_token, answer) ==
    IF OverridesRefresh(class)
    THEN ClientRefreshRun(refresh_token, answer)
    ELSE NotSent(NotImplementedError(provider_name(class) \o " does not support token refresh"))

\* GenericOIDCClient.password_grant_login(username, password)
PasswordGrantLoginRun(username, password, answer) ==
    Sent(Url(token_endpoint, <<>>),
         << <<"grant_type", "password">>, <<"client_id", client_id>>,
            <<"client_secret", client_secret>>, <<"username", username>>,
            <<"password", password>>, <<"scope", scope>> >>,
         answer)

\* what the identity provider behind a service supports: GitHub has neither
\* refresh tokens nor the password grant
SupportsRefresh(class) == class # "GitHubAuthService"
SupportsPassword(class) == class # "GitHubAuthService"
\* the token endpoint of a provider without the grant refuses it
RefusingAnswers == {[status |-> 200, body |-> ErrorBody], [status |-> 400, body |-> ErrorBody]}
TokenAnswersOf(class, supported) ==
    IF supported THEN TokenEndpointAnswers ELSE RefusingAnswers \cup {NoResponse}

----------------------------------------------------------------------------
(* SessionService: the user_sessions table *)

\* a datetime column that is NULL, or holds the clock reading t
NoTime == [some |-> FALSE, t |-> 0]
At(t) == [some |-> TRUE, t |-> t]

\* _hash_token: hashlib.sha256(token.encode()).hexdigest(), as a one-way tag
HashToken(token) == "hex(" \o Sha256(token) \o ")"

\* UserSession(...) as create_session fills it; the id is given by db.add
UserSession(id, access_token, has_id_token, t) ==
    [id |-> id, login_time |-> At(t), logout_time |-> NoTime, is_active |-> TRUE,
     access_token_hash |-> HashToken(access_token),
     token_type |-> IF has_id_token THEN "oidc" ELSE "oauth2"]

\* create_session: db.add(session); db.commit(); the new row gets the next id
CreateSessionRun(d, access_token, has_id_token, t) ==
    LET session == UserSession(Len(d) + 1, access_token, has_id_token, t) IN
    [db |-> Append(d, session), ret |-> {session}]

\* session.logout_time = datetime.now(UTC); session.is_active = False
Ended(session, t) == [session EXCEPT !.logout_time = At(t), !.is_active = FALSE]

EndSessionRunAlways(d, session_id, t) ==
    IF session_id \in DOMAIN d
    THEN [db |-> [d EXCEPT ![session_id] = Ended(@, t)],
          ret |-> {Ended(d[session_id], t)}]
    ELSE [db |-> d, ret |-> {}]

\* end_session: the row with the id, ended if it is active; the row is
\* returned whether or not it was active, None (here no row) when there is none
EndSessionRun(d, session_id, t) ==
    IF session_id \in DOMAIN d
    THEN IF d[session_id].is_active
         THEN [db |-> [d EXCEPT ![session_id] = Ended(@, t)],
               ret |-> {Ended(d[session_id], t)}]
         ELSE [db |-> d, ret |-> {d[session_id]}]
    ELSE [db |-> d, ret |-> {}]

\* the filter of end_sessions_by_token: the rows with the hash that are active
Matching(d, token_hash) ==
    {i \in DOMAIN d : d[i].access_token_hash = token_hash /\ d[i].is_active}
MatchingHashOnly(d, token_hash) ==
    {i \in DOMAIN d : d[i].access_token_hash = token_hash}

EndSessionsByTokenRunAll(d, access_token, t) ==
    LET found == MatchingHashOnly(d, HashToken(access_token)) IN
    [db |-> [i \in DOMAIN d |-> IF i \in found THEN Ended(d[i], t) ELSE d[i]],
     ret |-> {Ended(d[i], t) : i \in found}]

\* end_sessions_by_token: every matching row is ended and returned
EndSessionsByTokenRun(d, access_token, t) ==
    LET found == Matching(d, HashToken(access_token)) IN
    [db |-> [i \in DOMAIN d |-> IF i \in found THEN Ended(d[i], t) ELSE d[i]],
     ret |-> {Ended(d[i], t) : i \in found}]

NoSessionCall == [op |-> "none", token |-> "", id |-> 0, ret |-> {}, pre |-> <<>>, t |-> 0]

----------------------------------------------------------------------------
(* The generic router: _state_map, the logins and the callbacks *)

\* the providers of AuthProvider that are modelled: GitHub, which has no OIDC,
\* and one OIDC provider
AuthProviders == {"github", "azure"}
\* the prompt a service passes to its client's build_login_redirect_url
LoginPrompt(class) == IF class = "AzureAuthService" THEN "consent" ELSE None
\* _get_service(provider)
ServiceOf(provider_value) ==
    IF provider_value = "github" THEN "GitHubAuthService" ELSE "AzureAuthService"

\* {"provider": provider.value, "mode": mode}; None is the record of no state
StateData(provider_value, mode) == [provider |-> provider_value, mode |-> mode]
NoStateData == StateData("", "")
\* _state_map[state] = data
MapSet(m, state, data) ==
    [k \in DOMAIN m \cup {state} |-> IF k = state THEN data ELSE m[k]]

MapPeek(m, state) ==
    IF state \in DOMAIN m
    THEN [map |-> m, data |-> m[state]]
    ELSE [map |-> m, data |-> NoStateData]

\* _state_map.pop(state, None)
MapPop(m, state) ==
    IF state \in DOMAIN m
    THEN [map |-> [k \in DOMAIN m \ {state} |-> m[k]], data |-> m[state]]
    ELSE [map |-> m, data |-> NoStateData]

\* _build_oauth2_auth_url(provider, state) for Azure
BuildOauth2AuthUrl(state) ==
    Url(authorization_endpoint,
        << <<"client_id", client_id>>, <<"response_type", "code">>,
           <<"redirect_uri", redirect_uri>>, <<"scope", scope>>, <<"state", state>>,
           <<"response_mode", "query">> >>)

\* oauth2_login(provider): the state is drawn, the url is built (by the
\* service and its PKCE client for GitHub), then the state is recorded
Oauth2LoginRun(provider_value, state, pair, m, s, t) ==
    LET r == IF provider_value = "github"
             THEN BuildLoginRun(TRUE, state, LoginPrompt(ServiceOf(provider_value)), <<>>,
                                state, pair, s, t, t)
             ELSE [url |-> BuildOauth2AuthUrl(state), state |-> state, store |-> s, t |-> t]
    IN  [map |-> MapSet(m, state, StateData(provider_value, "oauth2")),
         store |-> r.store, url |-> r.url, status |-> 307]

\* oidc_login(provider): 400 for GitHub; otherwise the state is recorded and
\* the service builds the url
OidcLoginRun(provider_value, state, pair, m, s, t) ==
    IF provider_value = "github"
    THEN [map |-> m, store |-> s, url |-> NoUrl, status |-> 400]
    ELSE LET r == BuildLoginRun(TRUE, state, LoginPrompt(ServiceOf(provider_value)), <<>>,
                                state, pair, s, t, t)
         IN  [map |-> MapSet(m, state, StateData(provider_value, "oidc")),
              store |-> r.store, url |-> r.url, status |-> 307]

\* _exchange_oauth2_code(provider, code): a POST without PKCE whose body is
\* returned whatever the status
ExchangeOauth2Code(code, answer, s, t) ==
    [store |-> s, t |-> t, data |-> ExchangeData(code),
     ret |-> ReturnBody(answer),
     err |-> IF answer = NoResponse THEN RequestError ELSE NoErr]

\* the callback from the token response on: 401 for OAuth2CallbackError, 400
\* for any other exception, 200 with a session created
AfterExchange(endpoint, x, user_ok, d) ==
    CASE x.err # NoErr -> [status |-> 400, db |-> d]
      [] "error" \in DictKeys(x.ret) -> [status |-> 401, db |-> d]
      [] endpoint = "oidc" /\ ~Given(DictGet(x.ret, "id_token")) ->
            [status |-> 401, db |-> d]
      [] ~Given(DictGet(x.ret, "access_token")) -> [status |-> 401, db |-> d]
      [] ~user_ok -> [status |-> 400, db |-> d]
      [] OTHER ->
            [status |-> 200,
             db |-> CreateSessionRun(d, DictGet(x.ret, "access_token"),
                                     DictGet(x.ret, "id_token") # None, x.t).db]

\* oauth2_callback and oidc_callback (endpoint tells which) for the query
\* parameters code and state: the state is popped first; "Invalid state" is
\* raised before anything else is done
CallbackRun(endpoint, code, state, answer, user_ok, m, s, d, t1, t2) ==
    LET p == MapPop(m, state) IN
    IF p.data = NoStateData
    THEN [map |-> p.map, store |-> s, db |-> d, status |-> 400, data |-> <<>>,
          provider |-> "", t |-> t1]
    ELSE IF endpoint = "oidc" /\ p.data.provider = "github"
    THEN [map |-> p.map, store |-> s, db |-> d, status |-> 400, data |-> <<>>,
          provider |-> p.data.provider, t |-> t1]
    ELSE LET x == IF endpoint = "oauth2" /\ p.data.provider # "github"
                  THEN ExchangeOauth2Code(code, answer, s, t1)
                  ELSE ExchangeRun(TRUE, code, state, answer, s, t1, t2)
             a == AfterExchange(endpoint, x, user_ok, d)
         IN  [map |-> p.map, store |-> x.store, db |-> a.db, status |-> a.status,
              data |-> x.data, provider |-> p.data.provider, t |-> x.t]

----------------------------------------------------------------------------
(* Initial state *)

NoCall == [op |-> "none", key |-> "", ret |-> None, t |-> 0, pre |-> <<>>]
NoThread == 0
Threads == 1..NumThreads
NoFrame == [op |-> "none", key |-> "", value |-> "", entry |-> <<>>,
            ret |-> None, gen |-> 0, fresh |-> FALSE]

NumTasks == 2
Tasks == 1..NumTasks
\* a task outside _get_jwks
NoTask == [pc |-> "idle", now |-> 0]

Init ==
    /\ store = << >>
    /\ now = 0
    /\ ticks = 0
    /\ last = NoCall
    /\ live = [k \in Keys |-> <<>>]
    /\ pc = [th \in Threads |-> "idle"]
    /\ store_lock = NoThread
    /\ frame = [th \in Threads |-> NoFrame]
    /\ gen = [k \in Keys |-> [n |-> 0, exp |-> 0]]
    /\ got = [k \in Keys |-> 0]
    /\ jwks_cache = NoJwks
    /\ jwks_fetched_at = 0
    /\ provider = [keys |-> {Jwk("kidA", "n1")}, status |-> "ok"]
    /\ vlast = NoVCall
    /\ sessions = {}
    /\ validated = {}
    /\ clast = NoClientCall
    /\ tasks = [task \in Tasks |-> NoTask]
    /\ provider_registry = <<>>
    /\ instances = <<>>
    /\ reg_history = <<>>
    /\ rlast = NoFactoryCall
    /\ cls = NoClass
    /\ ctor = [th \in Threads |-> NoCtor]
    /\ state_map = <<>>
    /\ db = <<>>
    /\ slast = NoSessionCall

----------------------------------------------------------------------------
(* The cache called by one caller at a time: every call is one action *)

Tick ==
    /\ ticks < MaxTicks
    /\ \E d \in StoreSteps : now' = now + d
    /\ ticks' = ticks + 1
    /\ UNCHANGED <<store, last, live>>
    /\ UNCHANGED popVars
    /\ UNCHANGED cbVars
    /\ UNCHANGED clientVars
    /\ UNCHANGED taskVars
    /\ UNCHANGED regVars
    /\ UNCHANGED singVars
    /\ UNCHANGED webVars
    /\ UNCHANGED jwksVars

Set(key, value, ttl, op) ==
    /\ \E t2 \in Reread(now) :
        /\ store' = SetRun(store, key, value, ttl, now, t2)
        /\ now' = t2
        /\ ticks' = ticks + Elapsed(t2)
        /\ last' = [op |-> op, key |-> key, ret |-> None, t |-> t2, pre |-> live[key]]
        /\ live' = [live EXCEPT ![key] = <<value, t2, ttl>>]
    /\ UNCHANGED popVars
    /\ UNCHANGED cbVars
    /\ UNCHANGED clientVars
    /\ UNCHANGED taskVars
    /\ UNCHANGED regVars
    /\ UNCHANGED singVars
    /\ UNCHANGED webVars
    /\ UNCHANGED jwksVars

CacheSet == \E key \in Keys, value \in Values, ttl \in TTLs : Set(key, value, ttl, "set")

Get(key, op) ==
    /\ \E t2 \in Reread(now) :
        LET r == GetRun(store, key, now, t2) IN
        /\ store' = r.store
        /\ now' = r.t
        /\ ticks' = ticks + Elapsed(r.t)
        /\ last' = [op |-> op, key |-> key, ret |-> r.ret, t |-> r.t, pre |-> live[key]]
    /\ UNCHANGED live
    /\ UNCHANGED popVars
    /\ UNCHANGED cbVars
    /\ UNCHANGED clientVars
    /\ UNCHANGED taskVars
    /\ UNCHANGED regVars
    /\ UNCHANGED singVars
    /\ UNCHANGED webVars
    /\ UNCHANGED jwksVars

CacheGet == \E key \in Keys : Get(key, "get")

Pop(key, op) ==
    /\ \E t2 \in Reread(now) :
        LET r == PopRun(store, key, now, t2) IN
        /\ store' = r.store
        /\ now' = r.t
        /\ ticks' = ticks + Elapsed(r.t)
        /\ last' = [op |-> op, key |-> key, ret |-> r.ret, t |-> r.t, pre |-> live[key]]
    /\ live' = [live EXCEPT ![key] = <<>>]
    /\ UNCHANGED popVars
    /\ UNCHANGED cbVars
    /\ UNCHANGED clientVars
    /\ UNCHANGED taskVars
    /\ UNCHANGED regVars
    /\ UNCHANGED singVars
    /\ UNCHANGED webVars
    /\ UNCHANGED jwksVars

CachePop == \E key \in Keys : Pop(key, "pop")

CacheDelete ==
    /\ \E key \in Keys :
        LET r == DeleteRun(store, key) IN
        /\ store' = r.store
        /\ last' = [op |-> "delete", key |-> key, ret |-> IF r.ret THEN "True" ELSE "False",
                    t |-> now, pre |-> live[key]]
        /\ live' = [live EXCEPT ![key] = <<>>]
    /\ UNCHANGED <<now, ticks>>
    /\ UNCHANGED popVars
    /\ UNCHANGED cbVars
    /\ UNCHANGED clientVars
    /\ UNCHANGED taskVars
    /\ UNCHANGED regVars
    /\ UNCHANGED singVars
    /\ UNCHANGED webVars
    /\ UNCHANGED jwksVars

CacheClear ==
    /\ store' = << >>
    /\ last' = [op |-> "clear", key |-> "", ret |-> None, t |-> now, pre |-> <<>>]
    /\ live' = [k \in Keys |-> <<>>]
    /\ UNCHANGED <<now, ticks>>
    /\ UNCHANGED popVars
    /\ UNCHANGED cbVars
    /\ UNCHANGED clientVars
    /\ UNCHANGED taskVars
    /\ UNCHANGED regVars
    /\ UNCHANGED singVars
    /\ UNCHANGED webVars
    /\ UNCHANGED jwksVars

\* store_pkce_verifier(state, code_verifier)
StorePkceVerifier ==
    \E state \in States, v \in Values : Set(PkceKey(state), v, PKCE_TTL_SECONDS, "store")

\* retrieve_pkce_verifier(state)
RetrievePkceVerifier == \E state \in States : Pop(PkceKey(state), "retrieve")

NextStore ==
    \/ Tick
    \/ CacheSet
    \/ CacheGet
    \/ CachePop
    \/ CacheDelete
    \/ CacheClear
    \/ StorePkceVerifier
    \/ RetrievePkceVerifier

SpecStore == Init /\ [][NextStore]_vars

----------------------------------------------------------------------------
(* Claims about the store under SpecStore *)

Reads == {"get", "pop", "retrieve"}
ExpiryOf(w) == w[2] + w[3]

\* C1: one-time retrieval. A retrieve(state) returns a verifier only if a store
\* of that state has not been followed by a retrieve (or other removal), and then
\* it is the verifier of that store; within the TTL that retrieve does return it;
\* a retrieve with no store since the previous retrieve returns absent, and
\* after any retrieve the entry is gone.
C1_OneTimeRetrieval ==
    last.op = "retrieve" =>
        /\ last.ret # None => (last.pre # <<>> /\ last.ret = last.pre[1])
        /\ last.pre = <<>> => last.ret = None
        /\ (last.pre # <<>> /\ last.t < ExpiryOf(last.pre)) => last.ret = last.pre[1]
        /\ last.key \notin DOMAIN store

C1_Witness ==
    /\ last.op = "retrieve"
    /\ last.ret \in Values
    /\ last.pre # <<>>

\* C3: an entry written by set(key, value, ttl) at time t and not overwritten or
\* removed since is returned by get and pop at every time before t + ttl; at
\* t + ttl or later they return absent and the entry is no longer in the store.
C3_TtlExpiry ==
    (last.op \in Reads /\ last.pre # <<>>) =>
        /\ last.t < ExpiryOf(last.pre) => last.ret = last.pre[1]
        /\ last.t >= ExpiryOf(last.pre) => (last.ret = None /\ last.key \notin DOMAIN store)

C3_Witness ==
    /\ last.op = "get"
    /\ last.pre # <<>>
    /\ last.pre[3] = 1
    /\ last.t >= ExpiryOf(last.pre)
    /\ last.ret = None

----------------------------------------------------------------------------
(* The cache called from several threads: one action per statement of a call. *)
(* A thread holds _store_lock from "with self._store_lock" to the end of the  *)
(* block, also when the block is left by an exception.                        *)

\* the states the threads contend for
ContendedStates == {"s1"}

LockIgnored == TRUE

\* with self._store_lock: entered only while no thread holds the lock.
LockAvailable == store_lock = NoThread

\* retrieve_pkce_verifier(state) -> cache.pop(key)
CallPop(th) ==
    /\ pc[th] = "idle"
    /\ \E state \in ContendedStates :
        frame' = [frame EXCEPT ![th] = [NoFrame EXCEPT !.op = "pop", !.key = PkceKey(state)]]
    /\ pc' = [pc EXCEPT ![th] = "lock"]
    /\ UNCHANGED <<store_lock, gen, got>>
    /\ UNCHANGED storeVars
    /\ UNCHANGED jwksVars
    /\ UNCHANGED cbVars
    /\ UNCHANGED clientVars
    /\ UNCHANGED taskVars
    /\ UNCHANGED regVars
    /\ UNCHANGED singVars
    /\ UNCHANGED webVars

\* store_pkce_verifier(state, code_verifier) -> cache.set(key, code_verifier, 600)
CallSet(th) ==
    /\ pc[th] = "idle"
    /\ \E state \in ContendedStates, value \in Values :
        /\ gen[PkceKey(state)].n < MaxGen
        /\ frame' = [frame EXCEPT ![th] =
                [NoFrame EXCEPT !.op = "set", !.key = PkceKey(state), !.value = value]]
    /\ pc' = [pc EXCEPT ![th] = "lock"]
    /\ UNCHANGED <<store_lock, gen, got>>
    /\ UNCHANGED storeVars
    /\ UNCHANGED jwksVars
    /\ UNCHANGED cbVars
    /\ UNCHANGED clientVars
    /\ UNCHANGED taskVars
    /\ UNCHANGED regVars
    /\ UNCHANGED singVars
    /\ UNCHANGED webVars

Acquire(th) ==
    /\ pc[th] = "lock"
    /\ LockAvailable
    /\ store_lock' = th
    /\ pc' = [pc EXCEPT ![th] = "sweep"]
    /\ UNCHANGED <<frame, gen, got>>
    /\ UNCHANGED storeVars
    /\ UNCHANGED jwksVars
    /\ UNCHANGED cbVars
    /\ UNCHANGED clientVars
    /\ UNCHANGED taskVars
    /\ UNCHANGED regVars
    /\ UNCHANGED singVars
    /\ UNCHANGED webVars

\* self._cleanup_expired()
Sweep(th) ==
    /\ pc[th] = "sweep"
    /\ store' = CleanupExpired(store, now)
    /\ LET f == frame[th] IN
        frame' = [frame EXCEPT ![th].gen = gen[f.key].n,
                               ![th].fresh = now < gen[f.key].exp]
    /\ pc' = [pc EXCEPT ![th] = IF frame[th].op = "set" THEN "write" ELSE "test"]
    /\ UNCHANGED <<now, ticks, last, live, store_lock, gen, got>>
    /\ UNCHANGED jwksVars
    /\ UNCHANGED cbVars
    /\ UNCHANGED clientVars
    /\ UNCHANGED taskVars
    /\ UNCHANGED regVars
    /\ UNCHANGED singVars
    /\ UNCHANGED webVars

\* set: self._store[key] = (value, time.time() + ttl_seconds)
Write(th) ==
    /\ pc[th] = "write"
    /\ LET f == frame[th] IN
        /\ store' = Put(store, f.key, <<f.value, now + PKCE_TTL_SECONDS>>)
        /\ gen' = [gen EXCEPT ![f.key] = [n |-> @.n + 1, exp |-> now + PKCE_TTL_SECONDS]]
        /\ got' = [got EXCEPT ![f.key] = 0]
        /\ frame' = [frame EXCEPT ![th] = [NoFrame EXCEPT !.op = "set", !.key = f.key]]
    /\ pc' = [pc EXCEPT ![th] = "unlock"]
    /\ UNCHANGED <<now, ticks, last, live, store_lock>>
    /\ UNCHANGED jwksVars
    /\ UNCHANGED cbVars
    /\ UNCHANGED clientVars
    /\ UNCHANGED taskVars
    /\ UNCHANGED regVars
    /\ UNCHANGED singVars
    /\ UNCHANGED webVars

\* pop: if key in self._store
Test(th) ==
    /\ pc[th] = "test"
    /\ pc' = [pc EXCEPT ![th] = IF frame[th].key \in DOMAIN store THEN "take" ELSE "unlock"]
    /\ UNCHANGED <<frame, store_lock, gen, got>>
    /\ UNCHANGED storeVars
    /\ UNCHANGED jwksVars
    /\ UNCHANGED cbVars
    /\ UNCHANGED clientVars
    /\ UNCHANGED taskVars
    /\ UNCHANGED regVars
    /\ UNCHANGED singVars
    /\ UNCHANGED webVars

\* pop: value, expires_at = self._store.pop(key); a missing key raises KeyError.
Take(th) ==
    /\ pc[th] = "take"
    /\ LET f == frame[th] IN
        IF f.key \in DOMAIN store
        THEN /\ store' = PopEntry(store, f.key)
             /\ frame' = [frame EXCEPT ![th].entry = store[f.key]]
             /\ pc' = [pc EXCEPT ![th] = "compare"]
        ELSE /\ store' = store
             /\ frame' = [frame EXCEPT ![th].ret = "KeyError"]
             /\ pc' = [pc EXCEPT ![th] = "unlock"]
    /\ UNCHANGED <<now, ticks, last, live, store_lock, gen, got>>
    /\ UNCHANGED jwksVars
    /\ UNCHANGED cbVars
    /\ UNCHANGED clientVars
    /\ UNCHANGED taskVars
    /\ UNCHANGED regVars
    /\ UNCHANGED singVars
    /\ UNCHANGED webVars

\* pop: if time.time() < expires_at: return str(value); return None
Compare(th) ==
    /\ pc[th] = "compare"
    /\ LET f == frame[th]
           hit == Unexpired(f.entry, now) IN
        /\ frame' = [frame EXCEPT ![th].ret = IF hit THEN f.entry[1] ELSE None,
                                  ![th].entry = <<>>,
                                  ![th].fresh = now < gen[f.key].exp]
        /\ got' = [got EXCEPT ![f.key] = IF hit /\ f.gen = gen[f.key].n THEN @ + 1 ELSE @]
    /\ pc' = [pc EXCEPT ![th] = "unlock"]
    /\ UNCHANGED <<store_lock, gen>>
    /\ UNCHANGED storeVars
    /\ UNCHANGED jwksVars
    /\ UNCHANGED cbVars
    /\ UNCHANGED clientVars
    /\ UNCHANGED taskVars
    /\ UNCHANGED regVars
    /\ UNCHANGED singVars
    /\ UNCHANGED webVars

\* leaving the with block releases the lock
Release(th) ==
    /\ pc[th] = "unlock"
    /\ store_lock' = NoThread
    /\ pc' = [pc EXCEPT ![th] = "idle"]
    /\ UNCHANGED <<frame, gen, got>>
    /\ UNCHANGED storeVars
    /\ UNCHANGED jwksVars
    /\ UNCHANGED cbVars
    /\ UNCHANGED clientVars
    /\ UNCHANGED taskVars
    /\ UNCHANGED regVars
    /\ UNCHANGED singVars
    /\ UNCHANGED webVars

NextPop ==
    \/ Tick
    \/ \E th \in Threads : CallPop(th)
    \/ \E th \in Threads : CallSet(th)
    \/ \E th \in Threads : Acquire(th)
    \/ \E th \in Threads : Sweep(th)
    \/ \E th \in Threads : Write(th)
    \/ \E th \in Threads : Test(th)
    \/ \E th \in Threads : Take(th)
    \/ \E th \in Threads : Compare(th)
    \/ \E th \in Threads : Release(th)

SpecPop == Init /\ [][NextPop]_vars

Returned(th) == pc[th] = "idle" /\ frame[th].op = "pop"
\* the pop of th looked at the entry of the latest set while that entry was unexpired
OnLiveKey(th) ==
    /\ frame[th].gen = gen[frame[th].key].n
    /\ frame[th].gen > 0
    /\ frame[th].fresh

\* C2: under every interleaving of concurrent pop(key) calls on one live key
\* (one set, no set in between) exactly one pop returns the value and every
\* other pop returns absent: no key yields its value twice, no pop fails
\* with an error, and a pop that returns absent on the live key lost to
\* the one pop that returned the value.
C2_ConcurrentPop ==
    /\ \A k \in Keys : got[k] <= 1
    /\ \A th \in Threads : frame[th].ret # "KeyError"
    /\ \A th \in Threads :
        (Returned(th) /\ OnLiveKey(th) /\ frame[th].ret = None) => got[frame[th].key] = 1

C2_Witness ==
    \E a, b \in Threads :
        /\ a # b
        /\ Returned(a) /\ Returned(b)
        /\ frame[a].key = frame[b].key
        /\ OnLiveKey(a) /\ OnLiveKey(b)
        /\ frame[a].ret \in Values
        /\ frame[b].ret = None

----------------------------------------------------------------------------
(* The validator called by one task at a time: every call is one action *)

Validator == [cache |-> jwks_cache, fetched_at |-> jwks_fetched_at]
\* the clock after an awaited fetch: the same instant or a second later
After(t, fetches) == IF fetches > 0 THEN Reread(t) ELSE {t}

TickJwks ==
    /\ ticks < MaxTicks
    /\ \E d \in JwksSteps : now' = now + d
    /\ ticks' = ticks + 1
    /\ UNCHANGED <<jwks_cache, jwks_fetched_at, provider, vlast>>
    /\ UNCHANGED cacheOnly
    /\ UNCHANGED popVars
    /\ UNCHANGED cbVars
    /\ UNCHANGED clientVars
    /\ UNCHANGED taskVars
    /\ UNCHANGED regVars
    /\ UNCHANGED singVars
    /\ UNCHANGED webVars

\* the provider rotates its keys, goes down or comes back
ProviderChange ==
    /\ \E p \in ProviderStates : p # provider /\ provider' = p
    /\ UNCHANGED <<jwks_cache, jwks_fetched_at, vlast, now, ticks>>
    /\ UNCHANGED cacheOnly
    /\ UNCHANGED popVars
    /\ UNCHANGED cbVars
    /\ UNCHANGED clientVars
    /\ UNCHANGED taskVars
    /\ UNCHANGED regVars
    /\ UNCHANGED singVars
    /\ UNCHANGED webVars

GetJwks ==
    /\ \E force_refresh \in BOOLEAN :
        \E r \in {GetJwksRun(Validator, force_refresh, now, provider)} :
        /\ jwks_cache' = r.cache
        /\ jwks_fetched_at' = r.fetched_at
        /\ vlast' = [NoVCall EXCEPT !.op = "get_jwks", !.force = force_refresh, !.t = now,
                                    !.pre = Validator, !.env = provider,
                                    !.ok = (r.err = NoErr), !.err = r.err,
                                    !.fetches = r.fetches]
        /\ \E t \in After(now, r.fetches) : now' = t /\ ticks' = ticks + Elapsed(t)
    /\ UNCHANGED provider
    /\ UNCHANGED cacheOnly
    /\ UNCHANGED popVars
    /\ UNCHANGED cbVars
    /\ UNCHANGED clientVars
    /\ UNCHANGED taskVars
    /\ UNCHANGED regVars
    /\ UNCHANGED singVars
    /\ UNCHANGED webVars

\* the clock read by the forced retry of _get_key, after the first _get_jwks
RetryTimes == After(now, GetJwksRun(Validator, FALSE, now, provider).fetches)

GetKey ==
    /\ \E kid \in Kids, t2 \in RetryTimes :
        \E r \in {GetKeyRun(Validator, kid, now, t2, provider)} :
        /\ jwks_cache' = r.cache
        /\ jwks_fetched_at' = r.fetched_at
        /\ vlast' = [NoVCall EXCEPT !.op = "get_key", !.kid = kid, !.t = now,
                                    !.pre = Validator, !.env = provider, !.key = r.ret,
                                    !.ok = (r.err = NoErr), !.err = r.err,
                                    !.fetches = r.fetches, !.forced = r.forced]
        /\ \E t3 \in After(t2, r.forced) : now' = t3 /\ ticks' = ticks + Elapsed(t3)
    /\ UNCHANGED provider
    /\ UNCHANGED cacheOnly
    /\ UNCHANGED popVars
    /\ UNCHANGED cbVars
    /\ UNCHANGED clientVars
    /\ UNCHANGED taskVars
    /\ UNCHANGED regVars
    /\ UNCHANGED singVars
    /\ UNCHANGED webVars

\* the clock passes the JWKS TTL in one step
TickTtl ==
    /\ ticks < MaxTicks
    /\ now' = now + cache_ttl
    /\ ticks' = ticks + 1
    /\ UNCHANGED <<jwks_cache, jwks_fetched_at, provider, vlast>>
    /\ UNCHANGED cacheOnly
    /\ UNCHANGED popVars
    /\ UNCHANGED cbVars
    /\ UNCHANGED clientVars
    /\ UNCHANGED taskVars
    /\ UNCHANGED regVars
    /\ UNCHANGED singVars
    /\ UNCHANGED webVars

\* validate_token(token); the clock stands still during the call, the tokens
\* expire a second before, at, or a second after it
ValidateToken ==
    /\ \E token \in Tokens(now) :
        \E r \in {ValidateRun(Validator, token, now, now, now, provider)} :
        /\ jwks_cache' = r.cache
        /\ jwks_fetched_at' = r.fetched_at
        /\ vlast' = [NoVCall EXCEPT !.op = "validate", !.kid = token.kid, !.t = now,
                                    !.token = token, !.key = r.key,
                                    !.ok = r.ok, !.ret = r.ret, !.err = r.err,
                                    !.fetches = r.fetches, !.forced = r.forced]
    /\ UNCHANGED <<provider, now, ticks>>
    /\ UNCHANGED cacheOnly
    /\ UNCHANGED popVars
    /\ UNCHANGED cbVars
    /\ UNCHANGED clientVars
    /\ UNCHANGED taskVars
    /\ UNCHANGED regVars
    /\ UNCHANGED singVars
    /\ UNCHANGED webVars

NextJwks ==
    \/ TickJwks
    \/ ProviderChange
    \/ GetJwks
    \/ GetKey

SpecJwks == Init /\ [][NextJwks]_vars

NextValidate ==
    \/ TickTtl
    \/ ProviderChange
    \/ ValidateToken

SpecValidate == Init /\ [][NextValidate]_vars

----------------------------------------------------------------------------
(* The Azure callback: azure_callback and AzureAuthService *)

Token(h, c) == [kid |-> h.kid, alg |-> h.alg, sig |-> h.sig, claims |-> c]
\* the ID tokens a token response carries: a good one, one with a forged
\* signature, one of another issuer, an expired one
IdTokens(t) ==
    {Token(GoodHeader, GoodPayload(t)),
     Token([GoodHeader EXCEPT !.sig = "forged"], GoodPayload(t)),
     Token(GoodHeader,
           Payload(Carried("aud", Audience), Carried("iss", "other"), Carried("exp", t + 1))),
     Token(GoodHeader,
           Payload(Carried("aud", Audience), Carried("iss", Issuer), Carried("exp", t - 1)))}
\* what exchange_code_for_token hands back: a body with an error field, a body
\* without access_token, or tokens with or without an id_token
TokenResponses(t) ==
    [error : {TRUE}, access_token : {FALSE}, id_token : {NoToken}]
    \cup [error : {FALSE}, access_token : {FALSE}, id_token : {NoToken}]
    \cup [error : {FALSE}, access_token : {TRUE}, id_token : IdTokens(t) \cup {NoToken}]

\* decode_token_unverified: jwt.get_unverified_claims(token), the payload as it is
DecodeTokenUnverified(token) == token.claims

\* get_user_from_token: the claims of the id_token, decoded without validation
GetUserFromToken(token_response) ==
    IF token_response.id_token # NoToken
    THEN DecodeTokenUnverified(token_response.id_token)
    ELSE <<>>

\* azure_callback after the exchange returned token_response: roles and the
\* session are made from get_user_from_token(token_response).
AzureCallback ==
    /\ Cardinality(sessions) < MaxSessions
    /\ \E token_response \in TokenResponses(now) :
        IF token_response.error \/ ~token_response.access_token
        THEN sessions' = sessions
        ELSE sessions' = sessions \cup
                {[provider |-> "azure", id_token |-> token_response.id_token,
                  user |-> GetUserFromToken(token_response)]}
    /\ UNCHANGED validated
    /\ UNCHANGED <<now, ticks>>
    /\ UNCHANGED clientVars
    /\ UNCHANGED taskVars
    /\ UNCHANGED regVars
    /\ UNCHANGED singVars
    /\ UNCHANGED webVars
    /\ UNCHANGED jwksVars
    /\ UNCHANGED cacheOnly
    /\ UNCHANGED popVars

\* AzureAuthService.validate_id_token(id_token)
ValidateIdToken ==
    /\ \E token \in IdTokens(now) :
        \E r \in {ValidateRun(Validator, token, now, now, now, provider)} :
            /\ jwks_cache' = r.cache
            /\ jwks_fetched_at' = r.fetched_at
            /\ vlast' = [NoVCall EXCEPT !.op = "validate", !.kid = token.kid, !.t = now,
                                        !.token = token, !.key = r.key,
                                        !.ok = r.ok, !.ret = r.ret, !.err = r.err,
                                        !.fetches = r.fetches, !.forced = r.forced]
            /\ validated' = IF r.ok THEN validated \cup {token} ELSE validated
    /\ UNCHANGED sessions
    /\ UNCHANGED <<provider, now, ticks>>
    /\ UNCHANGED clientVars
    /\ UNCHANGED taskVars
    /\ UNCHANGED regVars
    /\ UNCHANGED singVars
    /\ UNCHANGED webVars
    /\ UNCHANGED cacheOnly
    /\ UNCHANGED popVars

NextCallback ==
    \/ AzureCallback
    \/ ValidateIdToken
    \/ ProviderChange

SpecCallback == Init /\ [][NextCallback]_vars

\* C7 as claimed: the claims handed to the session and role collaborators come
\* from an ID token on which validate succeeded: no session is created, and no
\* roles are derived, from ID-token claims before that token has passed
\* validate.
C7_ValidatedBeforeSession ==
    \A s \in sessions : s.id_token # NoToken => s.id_token \in validated

----------------------------------------------------------------------------
(* The client called by one task at a time: every call is one action *)

LoginStateArgs == {None, "s1"}
\* prompt and extra_params: neither, a prompt, and extra parameters that name
\* a standard parameter
LoginOptions ==
    {[prompt |-> None, extra_params |-> <<>>],
     [prompt |-> "consent", extra_params |-> <<>>],
     [prompt |-> None, extra_params |-> << <<"state", "other">> >>],
     [prompt |-> None, extra_params |-> << <<"code_challenge", "chosen">>,
                                           <<"code_challenge_method", "plain">> >>]}
\* a state no login has stored yet is an unknown state
ExchangeStates == {None, "s1"} \cup token_hex(StateBytes)
Codes == {"code"}

EntryOf(s, key) == IF key \in DOMAIN s THEN s[key] ELSE <<>>

\* GenericOIDCClient.build_login_redirect_url; the clock stands still in the call
BuildLoginRedirectUrl ==
    /\ \E use_pkce \in BOOLEAN, state_arg \in LoginStateArgs, opt \in LoginOptions,
          fresh_state \in token_hex(StateBytes), pair \in generate_pkce_pair :
        \E r \in {BuildLoginRun(use_pkce, state_arg, opt.prompt, opt.extra_params,
                                fresh_state, pair, store, now, now)} :
            /\ store' = r.store
            /\ now' = r.t
            /\ ticks' = ticks + Elapsed(r.t)
            /\ clast' = [NoClientCall EXCEPT !.op = "login", !.use_pkce = use_pkce,
                                             !.arg = state_arg,
                                             !.extra_params = opt.extra_params,
                                             !.state = r.state, !.url = r.url, !.t = r.t,
                                             !.changed = (r.store # store)]
    /\ UNCHANGED <<last, live>>
    /\ UNCHANGED popVars
    /\ UNCHANGED jwksVars
    /\ UNCHANGED cbVars
    /\ UNCHANGED taskVars
    /\ UNCHANGED regVars
    /\ UNCHANGED singVars
    /\ UNCHANGED webVars

\* GenericOIDCClient.exchange_code_for_token
ExchangeCodeForToken ==
    /\ \E use_pkce \in BOOLEAN, code \in Codes, state \in ExchangeStates,
          answer \in TokenEndpointAnswers, t2 \in Reread(now) :
        \E r \in {ExchangeRun(use_pkce, code, state, answer, store, now, t2)} :
            /\ store' = r.store
            /\ now' = r.t
            /\ ticks' = ticks + Elapsed(r.t)
            /\ clast' = [NoClientCall EXCEPT !.op = "exchange", !.use_pkce = use_pkce,
                                             !.arg = state, !.state = state,
                                             !.url = Url(token_endpoint, <<>>),
                                             !.data = r.data,
                                             !.entry = IF Given(state)
                                                       THEN EntryOf(store, PkceKey(state))
                                                       ELSE <<>>,
                                             !.answer = answer, !.ret = r.ret,
                                             !.err = r.err, !.t = r.t,
                                             !.changed = (r.store # store)]
    /\ UNCHANGED <<last, live>>
    /\ UNCHANGED popVars
    /\ UNCHANGED jwksVars
    /\ UNCHANGED cbVars
    /\ UNCHANGED taskVars
    /\ UNCHANGED regVars
    /\ UNCHANGED singVars
    /\ UNCHANGED webVars

\* client.get_user_info(access_token), on a client built with or without a
\* user info endpoint
GetUserInfo ==
    /\ \E endpoint \in UserInfoEndpoints, answer \in UserInfoAnswers :
        \E r \in {GetUserInfoRun(endpoint, "at", answer)} :
            clast' = [NoClientCall EXCEPT !.op = "user_info", !.endpoint = endpoint,
                                          !.url = r.url, !.data = r.data,
                                          !.answer = IF r.url = NoUrl THEN NoResponse
                                                     ELSE answer,
                                          !.ret = r.ret, !.err = r.err, !.t = now]
    /\ UNCHANGED <<store, now, ticks, last, live>>
    /\ UNCHANGED popVars
    /\ UNCHANGED jwksVars
    /\ UNCHANGED cbVars
    /\ UNCHANGED taskVars
    /\ UNCHANGED regVars
    /\ UNCHANGED singVars
    /\ UNCHANGED webVars

\* service.refresh_token(refresh_token) on a provider service
RefreshToken ==
    /\ \E class \in ProviderClasses :
        \E answer \in TokenAnswersOf(class, SupportsRefresh(class)) :
        \E r \in {RefreshTokenRun(class, "rt", answer)} :
            clast' = [NoClientCall EXCEPT !.op = "refresh", !.class = class,
                                          !.url = r.url, !.data = r.data,
                                          !.answer = IF r.url = NoUrl THEN NoResponse
                                                     ELSE answer,
                                          !.ret = r.ret, !.err = r.err, !.t = now]
    /\ UNCHANGED <<store, now, ticks, last, live>>
    /\ UNCHANGED popVars
    /\ UNCHANGED jwksVars
    /\ UNCHANGED cbVars
    /\ UNCHANGED taskVars
    /\ UNCHANGED regVars
    /\ UNCHANGED singVars
    /\ UNCHANGED webVars

\* service.client.password_grant_login(username, password) on a provider service
PasswordGrantLogin ==
    /\ \E class \in ProviderClasses :
        \E answer \in TokenAnswersOf(class, SupportsPassword(class)) :
        \E r \in {PasswordGrantLoginRun("user", "pw", answer)} :
            clast' = [NoClientCall EXCEPT !.op = "password", !.class = class,
                                          !.url = r.url, !.data = r.data,
                                          !.answer = IF r.url = NoUrl THEN NoResponse
                                                     ELSE answer,
                                          !.ret = r.ret, !.err = r.err, !.t = now]
    /\ UNCHANGED <<store, now, ticks, last, live>>
    /\ UNCHANGED popVars
    /\ UNCHANGED jwksVars
    /\ UNCHANGED cbVars
    /\ UNCHANGED taskVars
    /\ UNCHANGED regVars
    /\ UNCHANGED singVars
    /\ UNCHANGED webVars

\* the calls that use no PKCE store: user info, refresh and the password grant
NextGrants ==
    \/ Tick
    \/ GetUserInfo
    \/ RefreshToken
    \/ PasswordGrantLogin

SpecGrants == Init /\ [][NextGrants]_vars

NextClient ==
    \/ Tick
    \/ BuildLoginRedirectUrl
    \/ ExchangeCodeForToken

SpecClient == Init /\ [][NextClient]_vars

\* the state two flows share
SharedStates == {"s1"}
\* the service whose login stored the entry the store holds under the state,
\* "" when the store holds none
CreatorOf(state) == IF PkceKey(state) \in DOMAIN store THEN clast.owner ELSE ""

\* service.get_authorization_url(state) on a provider service: its own client,
\* built with use_pkce=True, and the one process-wide store
GetAuthorizationUrl ==
    /\ \E class \in ProviderClasses, state \in SharedStates,
          fresh_state \in token_hex(StateBytes), pair \in generate_pkce_pair :
        \E r \in {BuildLoginRun(TRUE, state, LoginPrompt(class), <<>>, fresh_state, pair,
                                store, now, now)} :
            /\ store' = r.store
            /\ now' = r.t
            /\ ticks' = ticks + Elapsed(r.t)
            /\ clast' = [NoClientCall EXCEPT !.op = "login", !.use_pkce = TRUE,
                                             !.class = class, !.arg = state,
                                             !.state = r.state, !.url = r.url, !.t = r.t,
                                             !.entry = EntryOf(store, PkceKey(state)),
                                             !.changed = (r.store # store),
                                             !.from = CreatorOf(state),
                                             !.owner = class]
    /\ UNCHANGED <<last, live>>
    /\ UNCHANGED popVars
    /\ UNCHANGED jwksVars
    /\ UNCHANGED cbVars
    /\ UNCHANGED taskVars
    /\ UNCHANGED regVars
    /\ UNCHANGED singVars
    /\ UNCHANGED webVars

\* service.exchange_code_for_token(code, state) on a provider service
ServiceExchangeCodeForToken ==
    /\ \E class \in ProviderClasses, code \in Codes, state \in SharedStates,
          answer \in TokenEndpointAnswers, t2 \in Reread(now) :
        \E r \in {ExchangeRun(TRUE, code, state, answer, store, now, t2)} :
            /\ store' = r.store
            /\ now' = r.t
            /\ ticks' = ticks + Elapsed(r.t)
            /\ clast' = [NoClientCall EXCEPT !.op = "exchange", !.use_pkce = TRUE,
                                             !.class = class, !.arg = state,
                                             !.state = state,
                                             !.url = Url(token_endpoint, <<>>),
                                             !.data = r.data,
                                             !.entry = EntryOf(store, PkceKey(state)),
                                             !.answer = answer, !.ret = r.ret,
                                             !.err = r.err, !.t = r.t,
                                             !.changed = (r.store # store),
                                             !.from = CreatorOf(state)]
    /\ UNCHANGED <<last, live>>
    /\ UNCHANGED popVars
    /\ UNCHANGED jwksVars
    /\ UNCHANGED cbVars
    /\ UNCHANGED taskVars
    /\ UNCHANGED regVars
    /\ UNCHANGED singVars
    /\ UNCHANGED webVars

\* two provider services whose flows use the same state
NextShared ==
    \/ Tick
    \/ GetAuthorizationUrl
    \/ ServiceExchangeCodeForToken

SpecShared == Init /\ [][NextShared]_vars

----------------------------------------------------------------------------
(* Claims about the client under SpecClient *)

QueryGet(url, name) == DictGet(url.query, name)
S256Of(code_verifier) == Base64UrlNoPad(Sha256(code_verifier))
\* what a login with use_pkce leaves behind, and the state a login returns
LoginWithPkce ==
    /\ QueryGet(clast.url, "code_challenge") # None
    /\ QueryGet(clast.url, "code_challenge_method") = "S256"
    /\ PkceKey(clast.state) \in DOMAIN store
    /\ S256Of(store[PkceKey(clast.state)][1]) = QueryGet(clast.url, "code_challenge")
    /\ store[PkceKey(clast.state)][2] = clast.t + PKCE_TTL_SECONDS
ReturnedState ==
    IF Given(clast.arg)
    THEN clast.state = clast.arg
    ELSE clast.state \in token_hex(StateBytes) /\ Len(clast.state) = 32

\* C11 as claimed: build_login_redirect_url with use_pkce returns (url, state)
\* where url carries code_challenge and code_challenge_method=S256, state is a
\* generated 32-hex-character value when none was passed, and the PKCE store
\* then holds under the returned state the one verifier whose S256 challenge is
\* the url's code_challenge; without use_pkce nothing is stored and the url has
\* no code_challenge.
C11_LoginStoresVerifier ==
    clast.op = "login" =>
        /\ ReturnedState
        /\ clast.use_pkce => LoginWithPkce
        /\ ~clast.use_pkce =>
            /\ ~clast.changed
            /\ "code_challenge" \notin DictKeys(clast.url.query)

\* C11 amended: as claimed, except that without use_pkce the url has no
\* code_challenge and no code_challenge_method other than those the caller
\* passed in extra_params.
C11_LoginPkce ==
    clast.op = "login" =>
        /\ ReturnedState
        /\ clast.use_pkce => LoginWithPkce
        /\ ~clast.use_pkce =>
            /\ ~clast.changed
            /\ QueryGet(clast.url, "code_challenge_method")
                    = DictGet(clast.extra_params, "code_challenge_method")
            /\ QueryGet(clast.url, "code_challenge")
                    = DictGet(clast.extra_params, "code_challenge")

C11_Witness ==
    /\ clast.op = "login"
    /\ clast.use_pkce
    /\ clast.arg = None
    /\ Len(clast.state) = 32
    /\ LoginWithPkce
    /\ store[PkceKey(clast.state)][1] \in Verifiers

\* the fields of a form body or query whose value is a code_verifier
VerifierFields(d) == {d[i][1] : i \in {j \in DOMAIN d : d[j][2] \in Verifiers}}

\* C12: no message sent to the authorization endpoint carries a code_verifier:
\* the login url carries the challenge, which is not the verifier, and no
\* query string carries one. Over any sequence of logins and exchanges a
\* verifier appears only as the code_verifier field in the body of a request
\* to the token endpoint, and it is the verifier the store held for the state.
C12_VerifierOnlyInTokenRequest ==
    /\ VerifierFields(clast.url.query) = {}
    /\ clast.op = "login" =>
        /\ clast.url.endpoint = authorization_endpoint
        /\ clast.data = <<>>
        /\ clast.state \notin Verifiers
        /\ clast.use_pkce => QueryGet(clast.url, "code_challenge") \notin Verifiers
    /\ VerifierFields(clast.data) # {} =>
        /\ clast.op = "exchange"
        /\ clast.url.endpoint = token_endpoint
        /\ VerifierFields(clast.data) = {"code_verifier"}
        /\ clast.entry # <<>>
        /\ DictGet(clast.data, "code_verifier") = clast.entry[1]

C12_Witness ==
    /\ clast.op = "exchange"
    /\ clast.url.endpoint = token_endpoint
    /\ DictGet(clast.data, "code_verifier") \in Verifiers
    /\ PkceKey(clast.state) \notin DOMAIN store

Exchange == clast.op = "exchange"
\* the provider refused: an error field in the body, or a status that is not 2xx
Refused(answer) ==
    \/ "error" \in DictKeys(answer.body)
    \/ (answer # NoResponse /\ ~IsSuccess(answer.status))

\* C13 as claimed: exchange_code_for_token never returns a token bundle when
\* the response body carries an error field or the status is not 2xx: in both
\* cases it fails with a token-exchange error that carries the provider's
\* error.
C13_ExchangeErrorSurfaced ==
    (Exchange /\ Refused(clast.answer)) =>
        /\ clast.ret = <<>>
        /\ clast.err.type = "TokenExchangeError"
        /\ clast.err.msg = DictGet(clast.answer.body, "error")

\* a verifier is retrievable for the state of the exchange: the store held an
\* entry under it that was unexpired at the clock the call read
Retrievable ==
    /\ Given(clast.state)
    /\ clast.entry # <<>>
    /\ clast.t < clast.entry[2]

\* C14: with PKCE enabled, exchange_code_for_token sends the token request
\* whether or not a verifier is found: for a state that is unknown, already
\* consumed or expired the request has no code_verifier field; it has the
\* field, with the stored verifier, exactly when one was retrievable. The
\* answer of the token endpoint decides the outcome in both cases.
C14_MissingVerifierNotFatal ==
    (Exchange /\ clast.use_pkce) =>
        /\ clast.url.endpoint = token_endpoint
        /\ DictGet(clast.data, "grant_type") = "authorization_code"
        /\ DictGet(clast.data, "code") \in Codes
        /\ "code_verifier" \in DictKeys(clast.data) <=> Retrievable
        /\ Retrievable => DictGet(clast.data, "code_verifier") = clast.entry[1]
        /\ IsSuccess(clast.answer.status) => (clast.err = NoErr /\ clast.ret = clast.answer.body)
        /\ ~IsSuccess(clast.answer.status) => clast.err # NoErr

C14_Witness ==
    /\ Exchange
    /\ clast.use_pkce
    /\ clast.entry # <<>>
    /\ clast.t >= clast.entry[2]
    /\ "code_verifier" \notin DictKeys(clast.data)
    /\ clast.ret = Bundle

----------------------------------------------------------------------------
(* _get_jwks called by concurrent tasks of one event loop: a task runs      *)
(* without interruption up to an await, so a call is two steps, the one up  *)
(* to "await self._fetch_jwks()" and the one from the answer to the return. *)

\* now = time.time(); the freshness test; a usable cache is returned at once,
\* otherwise the task waits for the fetch
TaskCall(task) ==
    /\ tasks[task].pc = "idle"
    /\ \E force_refresh \in BOOLEAN :
        tasks' = [tasks EXCEPT ![task] =
            IF CacheUsable(force_refresh, jwks_cache, jwks_fetched_at, now)
            THEN NoTask
            ELSE [pc |-> "fetch", now |-> now]]
    /\ UNCHANGED <<jwks_cache, jwks_fetched_at, provider, vlast, now, ticks>>
    /\ UNCHANGED cacheOnly
    /\ UNCHANGED popVars
    /\ UNCHANGED cbVars
    /\ UNCHANGED clientVars
    /\ UNCHANGED regVars
    /\ UNCHANGED singVars
    /\ UNCHANGED webVars

\* the fetch is answered: self._jwks_cache = <the answer>;
\* self._jwks_fetched_at = now, the clock read before the fetch
TaskFetchDone(task) ==
    /\ tasks[task].pc = "fetch"
    /\ \E r \in {GetJwksRun(Validator, TRUE, tasks[task].now, provider)} :
        /\ jwks_cache' = r.cache
        /\ jwks_fetched_at' = r.fetched_at
        /\ vlast' = [NoVCall EXCEPT !.op = "get_jwks", !.t = tasks[task].now,
                                    !.env = IF r.err = NoErr THEN provider ELSE @,
                                    !.ok = (r.err = NoErr), !.err = r.err,
                                    !.fetches = r.fetches,
                                    !.earlier = (r.fetched_at < jwks_fetched_at)]
    /\ tasks' = [tasks EXCEPT ![task] = NoTask]
    /\ UNCHANGED <<provider, now, ticks>>
    /\ UNCHANGED cacheOnly
    /\ UNCHANGED popVars
    /\ UNCHANGED cbVars
    /\ UNCHANGED clientVars
    /\ UNCHANGED regVars
    /\ UNCHANGED singVars
    /\ UNCHANGED webVars

NextTasks ==
    \/ TickJwks
    \/ ProviderChange
    \/ \E task \in Tasks : TaskCall(task)
    \/ \E task \in Tasks : TaskFetchDone(task)

SpecTasks == Init /\ [][NextTasks]_vars

\* one second passes
TickSecond ==
    /\ ticks < MaxTicks
    /\ now' = now + 1
    /\ ticks' = ticks + 1
    /\ UNCHANGED <<jwks_cache, jwks_fetched_at, provider, vlast>>
    /\ UNCHANGED cacheOnly
    /\ UNCHANGED popVars
    /\ UNCHANGED cbVars
    /\ UNCHANGED clientVars
    /\ UNCHANGED taskVars
    /\ UNCHANGED regVars
    /\ UNCHANGED singVars
    /\ UNCHANGED webVars

\* the provider rotates kidA to new key material and back, and its JWKS
\* endpoint fails for a while
Rotations ==
    {[keys |-> {Jwk("kidA", "n1")}, status |-> "ok"],
     [keys |-> {Jwk("kidA", "n2")}, status |-> "ok"],
     [keys |-> {Jwk("kidA", "n2")}, status |-> "HTTPStatusError"]}
ProviderRotate ==
    /\ \E p \in Rotations : p # provider /\ provider' = p
    /\ UNCHANGED <<jwks_cache, jwks_fetched_at, vlast, now, ticks>>
    /\ UNCHANGED cacheOnly
    /\ UNCHANGED popVars
    /\ UNCHANGED cbVars
    /\ UNCHANGED clientVars
    /\ UNCHANGED taskVars
    /\ UNCHANGED regVars
    /\ UNCHANGED singVars
    /\ UNCHANGED webVars

\* overlapping refreshes while the provider rotates its key, second by second
NextOverlap ==
    \/ TickSecond
    \/ ProviderRotate
    \/ \E task \in Tasks : TaskCall(task)
    \/ \E task \in Tasks : TaskFetchDone(task)

SpecOverlap == Init /\ [][NextOverlap]_vars

\* the tasks that have tested the cache and not yet written it
InRefresh == {task \in Tasks : tasks[task].pc = "fetch"}

\* C20 as claimed: under any interleaving of concurrent get_keyset calls on
\* one validator the cached JWKS is replaced only as a whole, so that every
\* observable state pairs one complete fetched keyset with the fetched_at of
\* that same fetch, and access to the cache is mutually exclusive: no two
\* calls are between their test of the cache and their write to it at once.
C20_JwksExclusive ==
    /\ (vlast.op = "get_jwks" /\ vlast.fetches = 1 /\ vlast.ok) =>
        /\ jwks_cache = Jwks(vlast.env.keys)
        /\ jwks_fetched_at = vlast.t
    /\ Cardinality(InRefresh) <= 1

\* the last refresh to complete succeeded
Refreshed == vlast.op = "get_jwks" /\ vlast.fetches = 1 /\ vlast.ok

\* C34: when two refreshes of one validator's JWKS overlap, the cache ends
\* with the keyset of the refresh that completed last and with fetched_at equal
\* to the time that refresh started, the timestamp being taken before the
\* fetch: also when that start lies before the fetched_at it replaces, so
\* that a refresh that started earlier replaces the result of one that
\* started later and fetched_at decreases.
C34_LastCompletionWins ==
    Refreshed =>
        /\ jwks_cache = Jwks(vlast.env.keys)
        /\ jwks_fetched_at = vlast.t
        /\ vlast.t <= now

\* a refresh that started before the one whose result the cache held has
\* completed after it: fetched_at went back
C34_Witness ==
    /\ Refreshed
    /\ vlast.earlier
    /\ jwks_fetched_at = vlast.t
    /\ jwks_fetched_at < now
    /\ jwks_cache = Jwks(vlast.env.keys)

----------------------------------------------------------------------------
(* Claims about the JWKS cache under SpecJwks *)

KidIn(keys, kid) == \E k \in keys : k.kid = kid
Fresh(v, t) == v.cache.some /\ (t - v.fetched_at) < cache_ttl
Stale(v, t) == v.cache.some /\ (t - v.fetched_at) >= cache_ttl
\* a get_key call for a kid that neither the cache nor the provider has
AbsentKid ==
    /\ vlast.op = "get_key"
    /\ ~KidIn(vlast.pre.cache.keys, vlast.kid)
    /\ vlast.env.status = "ok"
    /\ ~KidIn(vlast.env.keys, vlast.kid)

\* C4 as claimed: get_key(kid) for a kid absent from the cached keyset and
\* from the provider's keyset issues exactly one JWKS fetch and then fails with
\* key-not-found, from every cache state.
C4_ExactlyOneFetch ==
    AbsentKid => (vlast.fetches = 1 /\ vlast.err = KeyNotFound)

\* C4 amended: such a get_key performs exactly one forced refresh and then
\* fails with key-not-found; that is one fetch from FRESH and two from EMPTY or
\* STALE (the ordinary load, then the forced refresh), never more.
C4_OneForcedRefresh ==
    AbsentKid =>
        /\ vlast.forced = 1
        /\ vlast.err = KeyNotFound
        /\ vlast.key = NoKey
        /\ vlast.fetches = IF Fresh(vlast.pre, vlast.t) THEN 1 ELSE 2

C4_Witness ==
    /\ AbsentKid
    /\ Stale(vlast.pre, vlast.t)
    /\ vlast.fetches = 2
    /\ vlast.err = KeyNotFound

\* a get_key call on a FRESH cache without kid while the provider publishes kid
Rotated ==
    /\ vlast.op = "get_key"
    /\ Fresh(vlast.pre, vlast.t)
    /\ ~KidIn(vlast.pre.cache.keys, vlast.kid)
    /\ vlast.env.status = "ok"
    /\ KidIn(vlast.env.keys, vlast.kid)

\* C5: key rotation. When the cache is FRESH and does not contain kid but the
\* keyset the provider serves does, get_key(kid) makes exactly one forced
\* refresh (one fetch), replaces the cached keyset with the fetched one and
\* returns the provider's key for kid.
C5_KeyRotation ==
    Rotated =>
        /\ vlast.forced = 1
        /\ vlast.fetches = 1
        /\ vlast.err = NoErr
        /\ vlast.key \in vlast.env.keys
        /\ vlast.key.kid = vlast.kid
        /\ jwks_cache = Jwks(vlast.env.keys)

C5_Witness ==
    /\ Rotated
    /\ vlast.pre.cache.keys # {}
    /\ vlast.key.kid = vlast.kid
    /\ jwks_cache # vlast.pre.cache

\* a get_key call on a STALE cache that holds kid while the fetch fails
StaleAndDown ==
    /\ vlast.op = "get_key"
    /\ Stale(vlast.pre, vlast.t)
    /\ KidIn(vlast.pre.cache.keys, vlast.kid)
    /\ vlast.env.status # "ok"

C9_FetchFailure ==
    (vlast.op = "get_jwks" /\ vlast.fetches = 1 /\ vlast.env.status # "ok") =>
        /\ jwks_cache = vlast.pre.cache
        /\ jwks_fetched_at = vlast.pre.fetched_at
        /\ vlast.err = FetchFailed

\* C10: get_keyset(force) returns the cached keyset without a fetch exactly
\* when it is not forced, a keyset is cached and now - fetched_at < ttl; in
\* every other case it makes one fetch and, when that succeeds, the cache holds
\* the fetched keyset with fetched_at set to the clock the call read. A key
\* that get_key returns is in the cached keyset, and that keyset is younger
\* than ttl at the clock the call read.
C10_FreshOrFetch ==
    /\ vlast.op = "get_jwks" =>
        /\ vlast.fetches = 0 <=> (~vlast.force /\ Fresh(vlast.pre, vlast.t))
        /\ vlast.fetches = 0 =>
            /\ vlast.err = NoErr
            /\ jwks_cache = vlast.pre.cache
            /\ jwks_fetched_at = vlast.pre.fetched_at
        /\ vlast.fetches # 0 =>
            /\ vlast.fetches = 1
            /\ vlast.env.status = "ok" =>
                /\ vlast.err = NoErr
                /\ jwks_cache = Jwks(vlast.env.keys)
                /\ jwks_fetched_at = vlast.t
                /\ Fresh(Validator, vlast.t)
    /\ (vlast.op = "get_key" /\ vlast.err = NoErr) =>
        /\ vlast.key \in jwks_cache.keys
        /\ Fresh(Validator, vlast.t)

C10_Witness ==
    /\ vlast.op = "get_jwks"
    /\ ~vlast.force
    /\ Stale(vlast.pre, vlast.t)
    /\ vlast.env.status = "ok"
    /\ vlast.fetches = 1
    /\ jwks_fetched_at = vlast.t
    /\ jwks_cache # vlast.pre.cache

----------------------------------------------------------------------------
(* The provider factory, called by one caller at a time *)

MaxRegisters == 2
MaxInstances == 2

github == <<"g", "i", "t", "h", "u", "b">>
GitHub == <<"G", "i", "t", "H", "u", "b">>
azure == <<"a", "z", "u", "r", "e">>
okta == <<"o", "k", "t", "a">>
RegisterNames == {github, GitHub, azure}
ResolveArgs == {NoName, Name(<<>>), Name(github), Name(GitHub), Name(azure), Name(okta)}

\* register_provider(name, provider_class)
RegisterProvider ==
    /\ Len(reg_history) < MaxRegisters
    /\ \E chars \in RegisterNames, provider_class \in ProviderClasses :
        /\ provider_registry' = RegisterRun(provider_registry, chars, provider_class)
        /\ reg_history' = Append(reg_history, <<chars, provider_class>>)
        /\ rlast' = [NoFactoryCall EXCEPT !.op = "register", !.arg = Name(chars),
                                          !.class = provider_class,
                                          !.name = lower(chars),
                                          !.pre = provider_registry]
    /\ UNCHANGED instances
    /\ UNCHANGED <<store, now, ticks, last, live>>
    /\ UNCHANGED popVars
    /\ UNCHANGED jwksVars
    /\ UNCHANGED cbVars
    /\ UNCHANGED clientVars
    /\ UNCHANGED taskVars
    /\ UNCHANGED singVars
    /\ UNCHANGED webVars

\* get_auth_provider(provider)
GetAuthProvider ==
    /\ Len(instances) < MaxInstances
    /\ \E provider_arg \in ResolveArgs :
        \E r \in {GetAuthProviderRun(provider_registry, instances, provider_arg)} :
        /\ instances' = r.heap
        /\ rlast' = [NoFactoryCall EXCEPT !.op = "resolve", !.arg = provider_arg,
                                          !.name = r.name, !.pre = provider_registry,
                                          !.ref = r.ref, !.err = r.err]
    /\ UNCHANGED <<provider_registry, reg_history>>
    /\ UNCHANGED <<store, now, ticks, last, live>>
    /\ UNCHANGED popVars
    /\ UNCHANGED jwksVars
    /\ UNCHANGED cbVars
    /\ UNCHANGED clientVars
    /\ UNCHANGED taskVars
    /\ UNCHANGED singVars
    /\ UNCHANGED webVars

\* a provider object obtained earlier is used: its validator's _get_jwks()
\* fills the object's own _jwks_cache
InstanceGetJwks ==
    /\ \E ref \in DOMAIN instances :
        /\ HasValidator(instances[ref].class)
        /\ \E r \in {GetJwksRun([cache |-> instances[ref].jwks_cache,
                                 fetched_at |-> instances[ref].jwks_fetched_at],
                                FALSE, now, provider)} :
            /\ r.fetches > 0
            /\ instances' = [instances EXCEPT ![ref].jwks_cache = r.cache,
                                              ![ref].jwks_fetched_at = r.fetched_at]
            /\ rlast' = [NoFactoryCall EXCEPT !.op = "get_jwks", !.ref = ref,
                                              !.pre = provider_registry]
    /\ UNCHANGED <<provider_registry, reg_history>>
    /\ UNCHANGED <<store, now, ticks, last, live>>
    /\ UNCHANGED popVars
    /\ UNCHANGED jwksVars
    /\ UNCHANGED cbVars
    /\ UNCHANGED clientVars
    /\ UNCHANGED taskVars
    /\ UNCHANGED singVars
    /\ UNCHANGED webVars

NextRegistry ==
    \/ RegisterProvider
    \/ GetAuthProvider
    \/ InstanceGetJwks

SpecRegistry == Init /\ [][NextRegistry]_vars

----------------------------------------------------------------------------
(* InMemoryCache(): the singleton's construction, one statement per step *)

\* super().__new__(cls) is reached at most this many times in a run
MaxObjects == 2

SingletonFrame ==
    /\ UNCHANGED <<store, now, ticks, last, live>>
    /\ UNCHANGED popVars
    /\ UNCHANGED jwksVars
    /\ UNCHANGED cbVars
    /\ UNCHANGED clientVars
    /\ UNCHANGED taskVars
    /\ UNCHANGED regVars
    /\ UNCHANGED webVars

Goto(th, label) == ctor' = [ctor EXCEPT ![th].pc = label]

\* a thread calls InMemoryCache()
CallNew(th) ==
    /\ ctor[th].pc = "idle"
    /\ Goto(th, "check1")
    /\ UNCHANGED cls
    /\ SingletonFrame

\* if cls._instance is None:  (read without the lock)
FirstCheck(th) ==
    /\ ctor[th].pc = "check1"
    /\ Goto(th, IF cls.instance = NoRef THEN "acquire" ELSE "return")
    /\ UNCHANGED cls
    /\ SingletonFrame

ClassLockIgnored == TRUE
\* cls._lock is free
ClassLockAvailable == cls.lock = NoThread

\* with cls._lock:
AcquireClassLock(th) ==
    /\ ctor[th].pc = "acquire"
    /\ ClassLockAvailable
    /\ cls' = [cls EXCEPT !.lock = th]
    /\ Goto(th, "check2")
    /\ SingletonFrame

\* if cls._instance is None:  (read again, under the lock)
SecondCheck(th) ==
    /\ ctor[th].pc = "check2"
    /\ Goto(th, IF cls.instance = NoRef THEN "new" ELSE "release")
    /\ UNCHANGED cls
    /\ SingletonFrame

\* cls._instance = super().__new__(cls)
Allocate(th) ==
    /\ ctor[th].pc = "new"
    /\ Len(cls.objs) < MaxObjects
    /\ cls' = [cls EXCEPT !.objs = Append(@, NewCache), !.instance = Len(cls.objs) + 1]
    /\ Goto(th, "store")
    /\ SingletonFrame

\* cls._instance._store = {}
InitStore(th) ==
    /\ ctor[th].pc = "store"
    /\ cls' = [cls EXCEPT !.objs[cls.instance].has_store = TRUE,
                          !.objs[cls.instance].entries = {},
                          !.inits = @ + 1]
    /\ Goto(th, "lock")
    /\ SingletonFrame

\* cls._instance._store_lock = Lock()
InitStoreLock(th) ==
    /\ ctor[th].pc = "lock"
    /\ cls' = [cls EXCEPT !.objs[cls.instance].has_store_lock = TRUE]
    /\ Goto(th, "release")
    /\ SingletonFrame

\* the with block is left
ReleaseClassLock(th) ==
    /\ ctor[th].pc = "release"
    /\ cls' = [cls EXCEPT !.lock = NoThread]
    /\ Goto(th, "return")
    /\ SingletonFrame

\* return cls._instance
ReturnInstance(th) ==
    /\ ctor[th].pc = "return"
    /\ ctor' = [ctor EXCEPT ![th] = [pc |-> "idle", ref |-> cls.instance, err |-> ""]]
    /\ UNCHANGED cls
    /\ SingletonFrame

\* the caller uses what it obtained: ref.set(key, ...), which needs the
\* object's _store_lock and _store attributes
UseSet(th) ==
    /\ ctor[th].pc = "idle"
    /\ ctor[th].ref # NoRef
    /\ \E key \in Keys :
        IF cls.objs[ctor[th].ref].has_store_lock /\ cls.objs[ctor[th].ref].has_store
        THEN /\ cls' = [cls EXCEPT !.objs[ctor[th].ref].entries = @ \cup {key},
                                   !.written = @ \cup {key}]
             /\ ctor' = [ctor EXCEPT ![th].err = ""]
        ELSE /\ ctor' = [ctor EXCEPT ![th].err = "AttributeError"]
             /\ UNCHANGED cls
    /\ SingletonFrame

NextSingleton ==
    \E th \in Threads :
        \/ CallNew(th)
        \/ FirstCheck(th)
        \/ AcquireClassLock(th)
        \/ SecondCheck(th)
        \/ Allocate(th)
        \/ InitStore(th)
        \/ InitStoreLock(th)
        \/ ReleaseClassLock(th)
        \/ ReturnInstance(th)
        \/ UseSet(th)

SpecSingleton == Init /\ [][NextSingleton]_vars

----------------------------------------------------------------------------
(* SessionService called by one request at a time *)

\* the access tokens sessions are created with, and one no session has
AccessTokens == {"at", "at2"}
\* the token responses sessions are created from: one of an OIDC login, with
\* an id_token, and one of an OAuth2 login, without
TokenData ==
    {[access_token |-> "at", has_id_token |-> TRUE],
     [access_token |-> "at2", has_id_token |-> FALSE]}
LogoutTokens == AccessTokens \cup {"unknown"}
\* the ids end_session is called with: those of the rows and one beyond
SessionIds == 1..(MaxSessions + 1)

WebFrame ==
    /\ UNCHANGED <<store, last, live>>
    /\ UNCHANGED popVars
    /\ UNCHANGED jwksVars
    /\ UNCHANGED cbVars
    /\ UNCHANGED taskVars
    /\ UNCHANGED regVars
    /\ UNCHANGED singVars

\* SessionService.create_session(db, user_data, token_data, request_info)
CreateSession ==
    /\ Len(db) < MaxSessions
    /\ \E token_data \in TokenData :
        \E r \in {CreateSessionRun(db, token_data.access_token, token_data.has_id_token,
                                   now)} :
            /\ db' = r.db
            /\ slast' = [NoSessionCall EXCEPT !.op = "create_session",
                                              !.token = token_data.access_token,
                                              !.ret = r.ret, !.pre = db, !.t = now]
    /\ UNCHANGED <<now, ticks, state_map, clast>>
    /\ WebFrame

\* SessionService.end_session(db, session_id)
EndSession ==
    /\ \E session_id \in SessionIds :
        \E r \in {EndSessionRun(db, session_id, now)} :
            /\ db' = r.db
            /\ slast' = [NoSessionCall EXCEPT !.op = "end_session", !.id = session_id,
                                              !.ret = r.ret, !.pre = db, !.t = now]
    /\ UNCHANGED <<now, ticks, state_map, clast>>
    /\ WebFrame

\* SessionService.end_sessions_by_token(db, access_token), as POST /logout
\* calls it with the bearer token
EndSessionsByToken ==
    /\ \E access_token \in LogoutTokens :
        \E r \in {EndSessionsByTokenRun(db, access_token, now)} :
            /\ db' = r.db
            /\ slast' = [NoSessionCall EXCEPT !.op = "end_sessions_by_token",
                                              !.token = access_token, !.ret = r.ret,
                                              !.pre = db, !.t = now]
    /\ UNCHANGED <<now, ticks, state_map, clast>>
    /\ WebFrame

NextSessions ==
    \/ TickSecond
    \/ CreateSession
    \/ EndSession
    \/ EndSessionsByToken

SpecSessions == Init /\ [][NextSessions]_vars

----------------------------------------------------------------------------
(* The generic router called by one request at a time *)

\* the state a callback's query carries: the one the logins draw, and one no
\* generic login has issued
CallbackStates == token_hex(StateBytes) \cup {"s1"}
Endpoints == {"oauth2", "oidc"}

GenericFrame ==
    /\ UNCHANGED <<last, live, slast>>
    /\ UNCHANGED popVars
    /\ UNCHANGED jwksVars
    /\ UNCHANGED cbVars
    /\ UNCHANGED taskVars
    /\ UNCHANGED regVars
    /\ UNCHANGED singVars

\* GET /oauth2/{provider}/login and GET /oidc/{provider}/login
GenericLogin ==
    /\ \E endpoint \in Endpoints, provider_value \in AuthProviders,
          state \in token_hex(StateBytes), pair \in generate_pkce_pair :
        \E r \in {IF endpoint = "oauth2"
                   THEN Oauth2LoginRun(provider_value, state, pair, state_map, store, now)
                   ELSE OidcLoginRun(provider_value, state, pair, state_map, store, now)} :
            /\ state_map' = r.map
            /\ store' = r.store
            /\ clast' = [NoClientCall EXCEPT !.op = endpoint \o "_login",
                                             !.class = provider_value, !.state = state,
                                             !.url = r.url, !.status = r.status, !.t = now,
                                             !.issued = (state \in DOMAIN state_map),
                                             !.changed = (r.map # state_map \/ r.store # store),
                                             !.accepted = clast.accepted \ {state}]
    /\ UNCHANGED <<now, ticks, db>>
    /\ GenericFrame

\* GET /oauth2/callback and GET /oidc/callback
GenericCallback ==
    /\ \E endpoint \in Endpoints, code \in Codes, state \in CallbackStates,
          answer \in TokenEndpointAnswers, user_ok \in BOOLEAN, t2 \in Reread(now) :
        \E r \in {CallbackRun(endpoint, code, state, answer, user_ok, state_map, store, db,
                              now, t2)} :
            /\ Len(r.db) <= MaxSessions
            /\ state_map' = r.map
            /\ store' = r.store
            /\ db' = r.db
            /\ now' = r.t
            /\ ticks' = ticks + Elapsed(r.t)
            /\ clast' = [NoClientCall EXCEPT !.op = endpoint \o "_callback",
                                             !.class = r.provider, !.state = state,
                                             !.data = r.data, !.status = r.status,
                                             !.answer = IF r.data = <<>> THEN NoResponse
                                                        ELSE answer,
                                             !.t = r.t,
                                             !.entry = EntryOf(store, PkceKey(state)),
                                             !.issued = (state \in DOMAIN state_map),
                                             !.changed = (r.map # state_map \/ r.store # store
                                                          \/ r.db # db),
                                             !.accepted =
                                                IF state \in DOMAIN state_map
                                                THEN clast.accepted \cup {state}
                                                ELSE clast.accepted,
                                             !.replay = (state \in clast.accepted)]
    /\ GenericFrame

NextGeneric ==
    \/ TickSecond
    \/ GenericLogin
    \/ GenericCallback

SpecGeneric == Init /\ [][NextGeneric]_vars

----------------------------------------------------------------------------
(* Claims about validate_token under SpecValidate *)

FetchError(e) == e = HTTPStatusError \/ e = Wrapped(FetchFailed)

\* what the claim requires of a token, its key looked up in the keyset the
\* call ended with
Acceptable(token, t) ==
    /\ token.kid # None
    /\ KidIn(jwks_cache.keys, token.kid)
    /\ token.alg = "RS256"
    /\ token.sig = FindKey(jwks_cache, token.kid).n
    /\ Has(token.claims, "aud") /\ token.claims["aud"] = Audience
    /\ Has(token.claims, "iss") /\ token.claims["iss"] = Issuer
    /\ Has(token.claims, "exp") /\ token.claims["exp"] > t

\* C6 as claimed: validate(token) returns the token's claims if and only if
\* the header has a kid, a key for that kid is in the keyset, the signature
\* verifies under that key with RS256, aud equals the configured audience, iss
\* equals the configured issuer and exp is later than now (calls in which a
\* JWKS fetch failed set aside).
C6_ValidateIff ==
    (vlast.op = "validate" /\ ~FetchError(vlast.err)) =>
        /\ vlast.ok <=> Acceptable(vlast.token, vlast.t)
        /\ vlast.ok => vlast.ret = vlast.token.claims

\* the causes validate_token wraps
Causes ==
    {JWTError("Missing 'kid' in token header."), KeyNotFound, FetchFailed,
     JWTError("The specified alg value is not allowed"),
     JWTError("Signature verification failed."), JWTError("Signature has expired."),
     JWTError("Invalid audience"), JWTError("Invalid issuer")}

\* C15 as claimed: every failing validate call, whatever the cause (missing
\* kid, key not found after refresh, JWKS fetch failure including an HTTP error
\* status, bad signature, wrong issuer, wrong audience, expired), ends with the
\* one token-validation error kind carrying the underlying cause; no other
\* error kind leaves validate.
C15_OneErrorKind ==
    (vlast.op = "validate" /\ ~vlast.ok) =>
        /\ vlast.ret = <<>>
        /\ vlast.err \in {Wrapped(cause) : cause \in Causes}

----------------------------------------------------------------------------
(* More claims about the store under SpecStore *)

Writes == {"set", "store"}
Removals == {"pop", "retrieve"}

\* C16: after any sequence of set calls the store holds at most one entry per
\* key, and it is the value and expiry of the latest set of that key: a set
\* under a key that already has a live entry replaces it, the entry is there
\* when set returns, and the next pop or retrieve of the key returns the value
\* of the latest set, never that of an earlier one.
C16_LatestSetWins ==
    /\ \A k \in DOMAIN store :
        /\ live[k] # <<>>
        /\ store[k] = <<live[k][1], ExpiryOf(live[k])>>
    /\ last.op \in Writes =>
        /\ last.key \in DOMAIN store
        /\ live[last.key][2] = last.t
    /\ (last.op \in Removals /\ last.ret # None) =>
        /\ last.pre # <<>>
        /\ last.ret = last.pre[1]

\* a second verifier stored over a live first one
C16_Witness ==
    /\ last.op = "store"
    /\ last.pre # <<>>
    /\ last.t < ExpiryOf(last.pre)
    /\ last.pre[1] = "v1"
    /\ store[last.key][1] = "v2"

\* C17: a PKCE verifier stored at time t (store_pkce_verifier keeps it for
\* 600 seconds) is never returned by retrieve at a time t' >= t + 600; at
\* every earlier time, if it has not been retrieved or overwritten, retrieve
\* returns it.
C17_PkceTtl ==
    /\ last.op = "store" =>
        /\ live[last.key][3] = PKCE_TTL_SECONDS
        /\ store[last.key][2] = last.t + PKCE_TTL_SECONDS
    /\ (last.op = "retrieve" /\ last.pre # <<>> /\ last.pre[3] = PKCE_TTL_SECONDS) =>
        /\ last.t >= last.pre[2] + PKCE_TTL_SECONDS => last.ret = None
        /\ last.t < last.pre[2] + PKCE_TTL_SECONDS => last.ret = last.pre[1]

C17_Witness ==
    /\ last.op = "retrieve"
    /\ last.pre # <<>>
    /\ last.pre[3] = PKCE_TTL_SECONDS
    /\ last.t = last.pre[2] + PKCE_TTL_SECONDS
    /\ last.ret = None

StoreOps == {"set", "get", "pop", "delete", "store", "retrieve"}
SweepingOps == {"set", "get", "pop", "store", "retrieve"}

\* C18 as claimed: after every store operation (set, get, pop, delete)
\* returns, the backing map holds no entry whose expiry time is at or before
\* the current time (taken as the time the call began): each operation sweeps
\* all expired entries.
C18_EveryOpSweeps ==
    [][(last' # last /\ last'.op \in StoreOps) =>
            \A k \in DOMAIN store' : store'[k][2] > now]_vars

\* C18 amended: set, get and pop sweep all expired entries, not only the key
\* they are called with: when one of them returns, the map holds no entry
\* whose expiry is at or before the time the call began (the clock its sweep
\* read). delete does not sweep: it leaves every entry under another key,
\* expired or not, as it was.
C18_SetGetPopSweep ==
    [][/\ (last' # last /\ last'.op \in SweepingOps) =>
            \A k \in DOMAIN store' : store'[k][2] > now
       /\ (last' # last /\ last'.op = "delete") =>
            \A k \in DOMAIN store \ {last'.key} :
                k \in DOMAIN store' /\ store'[k] = store[k]]_vars

\* a get after which the expired entry of another key is gone
C18_Witness ==
    /\ last.op = "get"
    /\ \E k \in Keys \ {last.key} :
        /\ live[k] # <<>>
        /\ ExpiryOf(live[k]) <= last.t
        /\ k \notin DOMAIN store
    /\ \A k \in DOMAIN store : store[k][2] > last.t

Lookups == {"get", "pop", "delete", "retrieve"}
\* the key has no entry, or one whose expiry is at or before t
MissingOrExpired(s, key, t) == key \notin DOMAIN s \/ s[key][2] <= t
NotFound(call) == call.ret = IF call.op = "delete" THEN "False" ELSE None
\* every entry unexpired at t is in s2 as it is in s1
UnexpiredKept(s1, s2, t) ==
    \A k \in DOMAIN s1 : s1[k][2] > t => (k \in DOMAIN s2 /\ s2[k] = s1[k])

\* C19 as claimed: get, pop and delete on a key that is missing or expired,
\* and retrieve on an unknown state, return a normal not-found result and
\* never raise; they leave every unexpired entry of the store unchanged.
C19_NotFoundIsNormal ==
    [][(last' # last /\ last'.op \in Lookups
            /\ MissingOrExpired(store, last'.key, last'.t)) =>
        /\ NotFound(last')
        /\ UnexpiredKept(store, store', last'.t)]_vars

\* C19 amended: get and pop on a key that is missing or expired, delete on a
\* key that has no entry, and retrieve on an unknown or expired state return
\* the not-found result (None; False for delete) and never raise; delete on a
\* key whose entry has expired but is still in the map removes it and returns
\* True. All of them leave every unexpired entry of the store unchanged.
C19_NotFoundOrSwept ==
    [][(last' # last /\ last'.op \in Lookups
            /\ MissingOrExpired(store, last'.key, last'.t)) =>
        /\ last'.op # "delete" => NotFound(last')
        /\ last'.op = "delete" =>
            /\ last'.ret = IF last'.key \in DOMAIN store THEN "True" ELSE "False"
            /\ last'.key \notin DOMAIN store'
        /\ UnexpiredKept(store, store', last'.t)]_vars

\* a pop of an expired key returned absent, an unexpired entry is still there
C19_Witness ==
    /\ last.op = "pop"
    /\ last.ret = None
    /\ last.pre # <<>>
    /\ last.t >= ExpiryOf(last.pre)
    /\ \E k \in DOMAIN store : k # last.key /\ store[k][2] > last.t

\* the entry the latest set of key k wrote, while no pop, delete or clear has
\* taken it: unexpired at the clock the last call read
LiveAt(k, t) == live[k] # <<>> /\ ExpiryOf(live[k]) > t
EntryWritten(k) == <<live[k][1], ExpiryOf(live[k])>>

\* C35: frame. set(k, ...), get(k), pop(k) and delete(k) never change the
\* value or expiry of an unexpired entry stored under a different key, and
\* get(k) leaves the unexpired entry under k itself in place: a repeated get
\* returns the same value until the entry expires or is removed.
C35_OtherKeysUntouched ==
    last.op \in StoreOps =>
        /\ \A k \in Keys \ {last.key} :
            LiveAt(k, last.t) => (k \in DOMAIN store /\ store[k] = EntryWritten(k))
        /\ (last.op = "get" /\ last.ret # None) =>
            /\ last.key \in DOMAIN store
            /\ store[last.key] = EntryWritten(last.key)
            /\ last.ret = store[last.key][1]
            /\ \A t2 \in Reread(now) :
                t2 < store[last.key][2] =>
                    /\ GetRun(store, last.key, now, t2).ret = last.ret
                    /\ last.key \in DOMAIN GetRun(store, last.key, now, t2).store
                    /\ GetRun(store, last.key, now, t2).store[last.key] = store[last.key]

\* a delete that removed its own entry and left another key's unexpired entry
C35_Witness ==
    /\ last.op = "delete"
    /\ last.ret = "True"
    /\ last.key \notin DOMAIN store
    /\ \E k \in Keys \ {last.key} :
        /\ LiveAt(k, last.t)
        /\ k \in DOMAIN store
        /\ store[k] = EntryWritten(k)

\* a delete has just returned
Deleted == last' # last /\ last'.op = "delete"
\* what get(key) returns on the store s at the clock t
GetAt(s, key, t) == GetRun(s, key, t, t).ret

\* C37 as claimed: delete(key) returns True exactly when a get(key) at the
\* same instant would have returned a value (an entry past its expiry counts
\* as absent), it removes the entry, and after it get(key) returns absent.
C37_DeleteAgreesWithGet ==
    [][Deleted =>
        /\ last'.ret = "True" <=> GetAt(store, last'.key, now) # None
        /\ last'.key \notin DOMAIN store'
        /\ GetAt(store', last'.key, now') = None]_vars

\* C37 amended: delete(key) returns True exactly when the map holds an entry
\* under key, expired or not: whenever a get(key) at the same instant would
\* have returned a value, and also for an entry past its expiry that no sweep
\* has removed yet. It removes the entry, and after it get(key) returns
\* absent.
C37_DeleteReportsPresence ==
    [][Deleted =>
        /\ last'.ret = "True" <=> last'.key \in DOMAIN store
        /\ GetAt(store, last'.key, now) # None => last'.ret = "True"
        /\ last'.key \notin DOMAIN store'
        /\ GetAt(store', last'.key, now') = None]_vars

\* a delete that returned True for an entry past its expiry
C37_Witness ==
    /\ last.op = "delete"
    /\ last.ret = "True"
    /\ last.pre # <<>>
    /\ last.t >= ExpiryOf(last.pre)
    /\ last.key \notin DOMAIN store

----------------------------------------------------------------------------
(* Claims about the provider factory under SpecRegistry *)

\* two names that differ at most in the case of their letters
SameLetter(c, d) ==
    \/ c = d
    \/ \E i \in DOMAIN UpperLetters :
        {c, d} = {UpperLetters[i], LowerLetters[i]}
SameIgnoringCase(m, n) ==
    /\ Len(m) = Len(n)
    /\ \A i \in DOMAIN m : SameLetter(m[i], n[i])

Resolved == rlast.op = "resolve"
Constructed == Resolved /\ rlast.err = NoFactoryErr /\ rlast.ref \in DOMAIN instances
\* the register calls made for the name n, whatever the case of its letters
RegistrationsOf(n) == {k \in DOMAIN reg_history : SameIgnoringCase(reg_history[k][1], n)}
LatestOf(ks) == CHOOSE k \in ks : \A j \in ks : j <= k

\* C21: resolve(n) constructs its client from the class given in the most
\* recent register(m, f) whose name equals n up to the case of the letters, so
\* "GitHub" and "github" resolve to the same registered class; and registering
\* the same (name, class) twice in a row leaves the registry as after the first.
C21_LatestRegistrationByLowerName ==
    /\ (Resolved /\ rlast.arg.some /\ RegistrationsOf(rlast.arg.chars) # {}) =>
            /\ Constructed
            /\ instances[rlast.ref].class =
                   reg_history[LatestOf(RegistrationsOf(rlast.arg.chars))][2]
    /\ (/\ rlast.op = "register"
        /\ Len(reg_history) >= 2
        /\ reg_history[Len(reg_history)] = reg_history[Len(reg_history) - 1]) =>
            provider_registry = rlast.pre

\* "github" resolved after register("GitHub", f) and a later register("github", g)
\* of another class, and the same pair registered twice
C21_Witness ==
    /\ Constructed
    /\ rlast.arg = Name(GitHub)
    /\ Len(reg_history) = 2
    /\ reg_history[1][1] = GitHub
    /\ reg_history[2][1] = github
    /\ reg_history[1][2] # reg_history[2][2]
    /\ instances[rlast.ref].class = reg_history[2][2]

\* the names registered at the moment of the call, in the registry's order
RegisteredNames(reg) == [i \in DOMAIN reg |-> reg[i][1]]

\* C22 as claimed: resolve of a name that is not registered fails with a
\* provider-not-supported error that carries the requested name and the list
\* of the names registered at that moment, and leaves the registry unchanged.
C22_UnregisteredError ==
    (Resolved /\ rlast.name \notin DictKeys(rlast.pre)) =>
        /\ rlast.ref = NoRef
        /\ rlast.err.type = "ProviderNotSupportedError"
        /\ rlast.err.provider = rlast.name
        /\ rlast.err.supported_providers = RegisteredNames(rlast.pre)
        /\ provider_registry = rlast.pre

C24_FreshInstance ==
    [][/\ (rlast'.op = "resolve" /\ rlast'.err = NoFactoryErr /\ rlast' # rlast) =>
            /\ rlast'.ref \notin DOMAIN instances
            /\ rlast'.ref \in DOMAIN instances'
            /\ instances'[rlast'.ref].jwks_cache = NoJwks
            /\ \A other \in DOMAIN instances : instances'[other] = instances[other]
       /\ rlast'.op = "get_jwks" =>
            \A other \in DOMAIN instances \ {rlast'.ref} :
                instances'[other] = instances[other]]_vars

\* a second instance of the class is resolved after the first has filled its
\* JWKS cache
C24_Witness ==
    /\ Constructed
    /\ rlast.ref = 2
    /\ instances[1].class = instances[2].class
    /\ instances[1].jwks_cache.some
    /\ ~instances[2].jwks_cache.some

----------------------------------------------------------------------------
(* More claims about validate_token under SpecValidate *)

MissingKid == Wrapped(JWTError("Missing 'kid' in token header."))

\* C25: validate on a token whose header has no kid fails as a malformed token
\* (the validation error whose cause is the missing kid) without any JWKS
\* lookup or fetch, leaving the JWKS cache and fetched_at as they were.
C25_NoKidNoLookup ==
    [][(vlast'.op = "validate" /\ vlast'.token.kid = None) =>
            /\ ~vlast'.ok
            /\ vlast'.ret = <<>>
            /\ vlast'.err = MissingKid
            /\ vlast'.fetches = 0
            /\ vlast'.key = NoKey
            /\ jwks_cache' = jwks_cache
            /\ jwks_fetched_at' = jwks_fetched_at]_vars

\* a token without kid is refused while the cache is still empty, where a
\* lookup would have had to fetch
C25_Witness ==
    /\ vlast.op = "validate"
    /\ vlast.token.kid = None
    /\ vlast.err = MissingKid
    /\ ~jwks_cache.some

----------------------------------------------------------------------------
(* Claims about user info, refresh and the password grant under SpecGrants *)

NothingSent == clast.url = NoUrl /\ clast.data = <<>> /\ clast.answer = NoResponse

\* C26: get_user_info on a client with no userinfo endpoint configured fails
\* with the configuration error (ValueError "User info endpoint not
\* configured") before any HTTP request is sent.
C26_NoUserInfoEndpoint ==
    (clast.op = "user_info" /\ clast.endpoint \in {None, ""}) =>
        /\ clast.err = ValueError("User info endpoint not configured")
        /\ clast.ret = <<>>
        /\ NothingSent

C26_Witness ==
    /\ clast.op = "user_info"
    /\ clast.endpoint = None
    /\ clast.err.type = "ValueError"
    /\ NothingSent

\* C27 as claimed: refresh_token on a provider that does not support refresh
\* (GitHub) ends with the not-supported error, sends no HTTP request and
\* changes no shared state; password_grant_login on a provider that does not
\* support the password grant likewise ends with the not-supported error
\* instead of posting to the token endpoint.
C27_UnsupportedGrants ==
    /\ (clast.op = "refresh" /\ ~SupportsRefresh(clast.class)) =>
            /\ clast.err.type = "NotImplementedError"
            /\ NothingSent
            /\ ~clast.changed
    /\ (clast.op = "password" /\ ~SupportsPassword(clast.class)) =>
            /\ clast.err.type = "NotImplementedError"
            /\ NothingSent

----------------------------------------------------------------------------
(* More claims about the client under SpecClient *)

\* The provider services all build their client with use_pkce=True, so a
\* state issued by a login and not yet used is one whose verifier the store
\* held when the callback's exchange began.
IssuedAndUnused == Given(clast.arg) /\ clast.entry # <<>>

\* C28 as claimed: in the provider callbacks a token exchange is performed
\* only when the callback's state equals a state issued by an earlier login
\* and not yet used; a callback with a missing or never-issued state is
\* rejected before any token request.
C28_CallbackStateChecked ==
    (clast.op = "exchange" /\ clast.use_pkce /\ clast.url = Url(token_endpoint, <<>>)) =>
        IssuedAndUnused

\* RFC 7636: a code_verifier has between 43 and 128 characters
WellFormedPair(pair) ==
    /\ pair[2] = "b64url(sha256(" \o pair[1] \o "))"
    /\ pair[2] # pair[1]
    /\ 43 <= Len(pair[1])
    /\ Len(pair[1]) <= 128

\* C30: for every generated PKCE pair the challenge is the unpadded base64url
\* of SHA-256(verifier) and the verifier has between 43 and 128 characters;
\* the login that generated it sends that challenge with the method S256,
\* never plain.
C30_PkcePair ==
    /\ \A pair \in generate_pkce_pair : WellFormedPair(pair)
    /\ (clast.op = "login" /\ clast.use_pkce) =>
            /\ PkceKey(clast.state) \in DOMAIN store
            /\ WellFormedPair(<<store[PkceKey(clast.state)][1],
                                QueryGet(clast.url, "code_challenge")>>)
            /\ QueryGet(clast.url, "code_challenge_method") = "S256"

\* a login has stored an 86-character verifier and sent its S256 challenge
C30_Witness ==
    /\ clast.op = "login"
    /\ clast.use_pkce
    /\ PkceKey(clast.state) \in DOMAIN store
    /\ Len(store[PkceKey(clast.state)][1]) = 86
    /\ QueryGet(clast.url, "code_challenge_method") = "S256"
    /\ "code_challenge" \in DictKeys(clast.extra_params)

\* the token request a retry of the last exchange would send, whatever the
\* token endpoint answers and whatever the clock reads
RetryRequests ==
    {ExchangeRun(TRUE, clast.data[2][2], clast.state, answer, store, now, t2).data :
        answer \in TokenEndpointAnswers, t2 \in Reread(now)}

\* C31: exchange_code_for_token with PKCE enabled and a state s consumes the
\* verifier for s before the token request is sent: whether the token endpoint
\* call then succeeds, returns an error status or fails on the network, the
\* verifier for s is absent afterwards, and a retry of the exchange with the
\* same state is sent without code_verifier.
C31_VerifierConsumedBeforeRequest ==
    (Exchange /\ clast.use_pkce /\ Given(clast.state)) =>
        /\ PkceKey(clast.state) \notin DOMAIN store
        /\ \A data \in RetryRequests : "code_verifier" \notin DictKeys(data)

C31_Witness ==
    /\ Exchange
    /\ clast.use_pkce
    /\ Retrievable
    /\ DictGet(clast.data, "code_verifier") = clast.entry[1]
    /\ clast.answer = NoResponse
    /\ clast.err = RequestError
    /\ PkceKey(clast.state) \notin DOMAIN store

\* the caller's extra_params name the parameter
Extra(name) == name \in DictKeys(clast.extra_params)

\* C32: in build_login_redirect_url, extra_params can never replace
\* code_challenge or code_challenge_method, which are written after
\* extra_params are merged: on a client with use_pkce the url's code_challenge
\* is the S256 challenge of the verifier the call stored and the method is
\* S256. The returned state is always the key under which the verifier is
\* stored; the state parameter inside the url equals the returned state
\* whenever extra_params has no "state" key, and is the extra_params value
\* otherwise.
C32_ExtraParamsAndState ==
    clast.op = "login" =>
        /\ clast.use_pkce =>
            /\ PkceKey(clast.state) \in DOMAIN store
            /\ store[PkceKey(clast.state)][1] \in Verifiers
            /\ store[PkceKey(clast.state)][2] = clast.t + PKCE_TTL_SECONDS
            /\ QueryGet(clast.url, "code_challenge")
                    = S256Of(store[PkceKey(clast.state)][1])
            /\ QueryGet(clast.url, "code_challenge_method") = "S256"
        /\ QueryGet(clast.url, "state")
                = IF Extra("state") THEN DictGet(clast.extra_params, "state")
                  ELSE clast.state

C32_Witness ==
    /\ clast.op = "login"
    /\ clast.use_pkce
    /\ Extra("code_challenge")
    /\ Extra("code_challenge_method")
    /\ QueryGet(clast.url, "code_challenge") # DictGet(clast.extra_params, "code_challenge")
    /\ QueryGet(clast.url, "code_challenge_method") = "S256"
    /\ PkceKey(clast.state) \in DOMAIN store


----------------------------------------------------------------------------
(* Claims about two provider services under SpecShared *)

\* the store held an unexpired entry under the state when the call was made
HeldBefore == clast.entry # <<>> /\ clast.t < clast.entry[2]

\* C33: the PKCE store is one process-wide store keyed by state alone, not by
\* provider or client: a store under state s by any provider's client
\* overwrites a verifier already held for s, whichever provider's client
\* stored it, and a retrieve of s by any client returns and consumes it,
\* whichever provider's login created it.
C33_StoreKeyedByStateAlone ==
    /\ DOMAIN store \subseteq {PkceKey(state) : state \in SharedStates}
    /\ clast.op = "login" =>
        /\ PkceKey(clast.state) \in DOMAIN store
        /\ S256Of(store[PkceKey(clast.state)][1]) = QueryGet(clast.url, "code_challenge")
        /\ store[PkceKey(clast.state)][2] = clast.t + PKCE_TTL_SECONDS
    /\ (Exchange /\ HeldBefore) =>
        /\ DictGet(clast.data, "code_verifier") = clast.entry[1]
        /\ PkceKey(clast.state) \notin DOMAIN store

\* a verifier reaches the token exchange of a provider other than the one
\* whose login created it
C33_Witness ==
    /\ Exchange
    /\ HeldBefore
    /\ clast.from \in ProviderClasses \ {clast.class}
    /\ DictGet(clast.data, "code_verifier") = clast.entry[1]
    /\ clast.entry[1] \in Verifiers

----------------------------------------------------------------------------
(* Claims about the singleton under SpecSingleton *)

Holders == {th \in Threads : ctor[th].ref # NoRef}

\* C29: under any interleaving of concurrent InMemoryCache() constructions
\* every caller obtains the same instance and the backing store is
\* initialised once only: every key set through one reference is in the store
\* every other reference points to, and no later construction resets it.
C29_OneInstance ==
    /\ \A th1, th2 \in Holders : ctor[th1].ref = ctor[th2].ref
    /\ \A th \in Holders : ctor[th].ref = cls.instance
    /\ Len(cls.objs) <= 1
    /\ cls.inits <= 1
    /\ \A th \in Holders : cls.written \subseteq cls.objs[ctor[th].ref].entries

\* two threads hold a reference, an entry has been set, and a construction is
\* in progress again
C29_Witness ==
    /\ \E th1, th2 \in Holders : th1 # th2
    /\ cls.written # {}
    /\ cls.inits = 1
    /\ \E th \in Threads : ctor[th].pc = "return"

----------------------------------------------------------------------------
(* Claims about the sessions under SpecSessions *)

\* the rows that were active with the hash of the token when the call began
ActiveWithHash(d, token) ==
    {i \in DOMAIN d : d[i].is_active /\ d[i].access_token_hash = HashToken(token)}
EndedByToken == slast.op = "end_sessions_by_token"

\* C38: frame. end_sessions_by_token(T) ends every active session whose
\* stored hash equals hash(T): is_active becomes false and logout_time is set;
\* it returns exactly those sessions and leaves every other session
\* unchanged. A second call with the same T returns no session and changes
\* nothing.
C38_EndSessionsByToken ==
    EndedByToken =>
        /\ DOMAIN db = DOMAIN slast.pre
        /\ \A i \in ActiveWithHash(slast.pre, slast.token) :
            /\ ~db[i].is_active
            /\ db[i].logout_time = At(slast.t)
            /\ db[i] = [slast.pre[i] EXCEPT !.is_active = FALSE,
                                            !.logout_time = At(slast.t)]
        /\ slast.ret = {db[i] : i \in ActiveWithHash(slast.pre, slast.token)}
        /\ \A i \in DOMAIN db \ ActiveWithHash(slast.pre, slast.token) :
            db[i] = slast.pre[i]
        /\ EndSessionsByTokenRun(db, slast.token, now).ret = {}
        /\ EndSessionsByTokenRun(db, slast.token, now).db = db

\* a logout that ended one session and left another, active one alone
C38_Witness ==
    /\ EndedByToken
    /\ slast.ret # {}
    /\ \A session \in slast.ret : ~session.is_active /\ session.logout_time = At(slast.t)
    /\ \E i \in DOMAIN db :
        /\ db[i].is_active
        /\ db[i].access_token_hash # HashToken(slast.token)
    /\ \E i \in DOMAIN db : slast.pre[i].is_active /\ ~db[i].is_active

\* C39: after any sequence of create_session, end_session and
\* end_sessions_by_token every session record has is_active = true exactly
\* when logout_time is unset; an ended session is never made active again and
\* its logout_time never changes: end_session on an ended session is a
\* no-op.
C39_ActiveIffNoLogoutTime ==
    /\ \A i \in DOMAIN db : db[i].is_active <=> db[i].logout_time = NoTime
    /\ DOMAIN slast.pre \subseteq DOMAIN db
    /\ \A i \in DOMAIN slast.pre : ~slast.pre[i].is_active => db[i] = slast.pre[i]
    /\ (slast.op = "end_session" /\ slast.id \in DOMAIN slast.pre
            /\ ~slast.pre[slast.id].is_active) => db = slast.pre

\* end_session called, at a later time, on a session that had been ended
C39_Witness ==
    /\ slast.op = "end_session"
    /\ slast.id \in DOMAIN slast.pre
    /\ ~slast.pre[slast.id].is_active
    /\ slast.pre[slast.id].logout_time.t < slast.t
    /\ db[slast.id].logout_time = slast.pre[slast.id].logout_time
    /\ \E i \in DOMAIN db : db[i].is_active

----------------------------------------------------------------------------
(* Claims about the generic router under SpecGeneric *)

Callback == clast.op \in {"oauth2_callback", "oidc_callback"}
\* what a callback with the state of the last one would do now, on either
\* endpoint and whatever the token endpoint would answer
Replays ==
    {CallbackRun(endpoint, code, clast.state, answer, user_ok, state_map, store, db, now, now) :
        endpoint \in Endpoints, code \in Codes, answer \in TokenEndpointAnswers,
        user_ok \in BOOLEAN}

\* C36: in the generic /oauth2/callback and /oidc/callback handlers a state is
\* accepted only if a generic login issued it and no callback has consumed it
\* yet: a callback with an unknown or already used state is rejected with 400
\* before any token exchange and leaves the state map and the PKCE store
\* unchanged, and an accepted state is removed so that it is accepted at most
\* once, even when the exchange that follows fails.
C36_StateAcceptedOnce ==
    /\ DOMAIN state_map \cap clast.accepted = {}
    /\ Callback =>
        /\ clast.replay => ~clast.issued
        /\ ~clast.issued =>
            /\ clast.status = 400
            /\ clast.data = <<>>
            /\ ~clast.changed
        /\ clast.data # <<>> => clast.issued
        /\ clast.state \notin DOMAIN state_map
        /\ \A r \in Replays :
            /\ r.status = 400
            /\ r.data = <<>>
            /\ r.map = state_map
            /\ r.store = store
            /\ r.db = db

\* a state that a callback had accepted without a session coming of it is
\* presented again and rejected, while the PKCE store holds a verifier
C36_Witness ==
    /\ Callback
    /\ clast.replay
    /\ ~clast.issued
    /\ clast.status = 400
    /\ clast.data = <<>>
    /\ store # <<>>
    /\ db = <<>>

====
